---- MODULE Spec2Model ----
(***************************************************************************)
(* A model of the gRPC load-test endpoint of ghz-nds: the POST handler of  *)
(* src/app/api/ghz/run/route.ts (lines 1-239), its worker pool, the call   *)
(* invoker makeUnaryCall and the aggregation of the per-call results into  *)
(* the report.                                                             *)
(*                                                                         *)
(* One behaviour is one POST request.  Init draws the request body and the *)
(* behaviour of the gRPC target from bounded sets; the actions follow the  *)
(* handler from one suspension point (await, callback) to the next.        *)
(***************************************************************************)
EXTENDS Integers, Sequences, FiniteSets, TLC

(***************************************************************************)
(* Bounds of the model and constants of the program.                       *)
(***************************************************************************)
\* Largest config.n the request is drawn with (smallest is -1).
MaxTotal == 3
\* Largest config.c the request is drawn with (smallest is -1).
MaxConc == 3

\* route.ts:105  const concurrency = config?.c || 10
DefaultConcurrency == 10
\* route.ts:106  const totalRequests = config?.n || 100
DefaultTotalRequests == 100
\* route.ts:21   bucketCount = 10
DefaultBucketCount == 10

(***************************************************************************)
(* JavaScript values.  An optional value (undefined / null or a value) is  *)
(* the empty tuple or a one-element tuple.                                 *)
(***************************************************************************)
None == <<>>
Some(v) == <<v>>

\* JavaScript truthiness of an optional number: undefined and 0 are falsy.
TruthyNum(o) == o # None /\ o[1] # 0
\* JavaScript truthiness of a string: only "" is falsy.
TruthyStr(s) == s # ""

\* `o || d` for an optional number o.
OrDefault(o, d) == IF TruthyNum(o) THEN o[1] ELSE d

Min(a, b) == IF a < b THEN a ELSE b
Max(a, b) == IF a > b THEN a ELSE b

RECURSIVE GCD(_, _)
GCD(a, b) == IF b = 0 THEN a ELSE GCD(b, a % b)

\* The quotient n / d of two non-negative integers (d > 0) as a fraction in
\* lowest terms <<numerator, denominator>>; JavaScript's `/` on numbers.
Frac(n, d) == LET g == GCD(n, d) IN IF n = 0 THEN <<0, 1>> ELSE <<n \div g, d \div g>>
\* The number 0.
Zero == <<0, 1>>

(***************************************************************************)
(* The call invoker: makeUnaryCall's callback (route.ts:68-85).            *)
(***************************************************************************)
\* The names of @grpc/grpc-js's status enum, grpc.status[code], for 0..16.
GrpcStatusNames ==
  <<"OK", "CANCELLED", "UNKNOWN", "INVALID_ARGUMENT", "DEADLINE_EXCEEDED",
    "NOT_FOUND", "ALREADY_EXISTS", "PERMISSION_DENIED", "RESOURCE_EXHAUSTED",
    "FAILED_PRECONDITION", "ABORTED", "OUT_OF_RANGE", "UNIMPLEMENTED",
    "INTERNAL", "UNAVAILABLE", "DATA_LOSS", "UNAUTHENTICATED">>

Digits == <<"0", "1", "2", "3", "4", "5", "6", "7", "8", "9">>

\* Number.prototype.toString() of a non-negative integer.
RECURSIVE NumStr(_)
NumStr(n) == IF n < 10 THEN Digits[n + 1] ELSE NumStr(n \div 10) \o Digits[(n % 10) + 1]

\* String(code) inside the template literal: an absent code prints "undefined".
CodeStr(code) == IF code = None THEN "undefined" ELSE NumStr(code[1])

\* grpc.status[err.code] || `UNKNOWN(${err.code})`
StatusCodeOf(code) ==
  IF code # None /\ code[1] \in 0..16
    THEN GrpcStatusNames[code[1] + 1]
    ELSE "UNKNOWN(" \o CodeStr(code) \o ")"

\* err.message || err.code?.toString() || 'Unknown error'
ErrorTextOf(err) ==
  IF TruthyStr(err.message) THEN err.message
  ELSE IF err.code # None THEN NumStr(err.code[1])
  ELSE "Unknown error"

\* The CallResult the callback resolves with: err is None (null) or
\* Some([code, message]); error is None (null) or Some(text).
MakeResult(err, latencyNs) ==
  IF err # None
    THEN [latency |-> latencyNs,
          error |-> Some(ErrorTextOf(err[1])),
          statusCode |-> StatusCodeOf(err[1].code)]
    ELSE [latency |-> latencyNs, error |-> None, statusCode |-> "OK"]

\* Truthiness of CallResult.error (`if (r.error)`, `!r.error`).
HasError(r) == r.error # None /\ TruthyStr(r.error[1])

(***************************************************************************)
(* The statistics of the report (route.ts:21-57 and 183-223).              *)
(***************************************************************************)
\* [...latencies].sort((a, b) => a - b): insertion into an ascending list,
\* after the elements that are less than x.
InsertSorted(x, s) ==
  LET k == Cardinality({j \in 1..Len(s) : s[j] < x})
  IN SubSeq(s, 1, k) \o <<x>> \o SubSeq(s, k + 1, Len(s))

\* The elements of s inserted into the ascending list acc, the first half of
\* s and then the rest.  (The test of `first' has the first half evaluated
\* before the rest, which keeps the evaluation shallow.)
RECURSIVE SortInto(_, _)
SortInto(acc, s) ==
  IF s = <<>> THEN acc
  ELSE IF Len(s) = 1 THEN InsertSorted(s[1], acc)
  ELSE LET h == Len(s) \div 2
           first == SortInto(acc, SubSeq(s, 1, h))
       IN IF first = first THEN SortInto(first, SubSeq(s, h + 1, Len(s))) ELSE first

SortAsc(s) == SortInto(<<>>, s)

\* latencies.reduce((a, b) => a + b, 0), summed by halves.
RECURSIVE SumSeq(_)
SumSeq(s) ==
  IF s = <<>> THEN 0
  ELSE IF Len(s) = 1 THEN s[1]
  ELSE LET h == Len(s) \div 2
       IN SumSeq(SubSeq(s, 1, h)) + SumSeq(SubSeq(s, h + 1, Len(s)))

\* The first and the last element taken for the minimum and the maximum, as
\* if the list were sorted.
MinSeqFirst(s) == s[1]
MaxSeqLast(s) == s[Len(s)]

\* Math.min(...latencies) and Math.max(...latencies) of a non-empty list,
\* taken by halves.
RECURSIVE MinSeq(_)
MinSeq(s) ==
  IF Len(s) = 1 THEN s[1]
  ELSE LET h == Len(s) \div 2
       IN Min(MinSeq(SubSeq(s, 1, h)), MinSeq(SubSeq(s, h + 1, Len(s))))
RECURSIVE MaxSeq(_)
MaxSeq(s) ==
  IF Len(s) = 1 THEN s[1]
  ELSE LET h == Len(s) \div 2
       IN Max(MaxSeq(SubSeq(s, 1, h)), MaxSeq(SubSeq(s, h + 1, Len(s))))

\* Math.ceil(a / b) for a >= 0, b > 0.
CeilDiv(a, b) == (a + b - 1) \div b

Percentiles == <<10, 25, 50, 75, 90, 95, 99>>

\* The index with Math.floor in the place of Math.ceil.
PercentileIndexFloor(p, n) == Max(0, ((p * n) \div 100) - 1)

\* Math.max(0, Math.ceil((p / 100) * sorted.length) - 1), as a 0-based index.
PercentileIndex(p, n) == Max(0, CeilDiv(p * n, 100) - 1)

\* buildLatencyDistribution (route.ts:49-57)
buildLatencyDistribution(latencies) ==
  IF Len(latencies) = 0 THEN <<>>
  ELSE LET sorted == SortAsc(latencies)
       IN [k \in 1..Len(Percentiles) |->
             [percentage |-> Percentiles[k],
              latency |-> sorted[PercentileIndex(Percentiles[k], Len(sorted)) + 1]]]

\* The bucket of one latency without the clamp to the last bucket.
BucketIndexNoClamp(lat, min, max, bucketCount) ==
  ((lat - min) * bucketCount) \div (max - min)

\* The bucket of one latency: Math.floor((lat - min) / bucketSize), clamped
\* to the last bucket; bucketSize = (max - min) / bucketCount.
BucketIndex(lat, min, max, bucketCount) ==
  LET idx == ((lat - min) * bucketCount) \div (max - min)
  IN IF idx >= bucketCount THEN bucketCount - 1 ELSE idx

\* The number of latencies that fall in bucket i (0-based).
BucketFill(latencies, i, min, max, bucketCount) ==
  Cardinality({k \in 1..Len(latencies) :
                 BucketIndex(latencies[k], min, max, bucketCount) = i})

\* A histogram whose marks are the lower bounds of the buckets.
buildHistogramLowerMarks(latencies, bucketCount) ==
  IF Len(latencies) = 0 THEN <<>>
  ELSE LET sorted == SortAsc(latencies)
           min == sorted[1]
           max == sorted[Len(sorted)]
       IN IF min = max
            THEN << [mark |-> Frac(min, 1), count |-> Len(latencies), frequency |-> Frac(1, 1)] >>
            ELSE [k \in 1..bucketCount |->
                   LET cnt == BucketFill(latencies, k - 1, min, max, bucketCount)
                   IN [mark |-> Frac(min * bucketCount + (max - min) * (k - 1), bucketCount),
                       count |-> cnt,
                       frequency |-> Frac(cnt, Len(latencies))]]

\* buildHistogram (route.ts:21-47).  A mark is kept in nanoseconds (the code
\* divides it by 1e9), as a fraction.
buildHistogram(latencies, bucketCount) ==
  IF Len(latencies) = 0 THEN <<>>
  ELSE LET sorted == SortAsc(latencies)
           min == sorted[1]
           max == sorted[Len(sorted)]
       IN IF min = max
            THEN << [mark |-> Frac(min, 1), count |-> Len(latencies), frequency |-> Frac(1, 1)] >>
            ELSE [k \in 1..bucketCount |->
                   LET cnt == BucketFill(latencies, k - 1, min, max, bucketCount)
                   IN [mark |-> Frac(min * bucketCount + (max - min) * k, bucketCount),
                       count |-> cnt,
                       frequency |-> Frac(cnt, Len(latencies))]]

\* The text a native function of the given name converts to.
NativeText(name) == "function " \o name \o "() { [native code] }"

\* The names of the functions every object inherits from Object.prototype
\* apart from its constructor.
ObjectPrototypeMethods ==
  {"toString", "toLocaleString", "valueOf", "hasOwnProperty", "isPrototypeOf",
   "propertyIsEnumerable", "__defineGetter__", "__defineSetter__", "__lookupGetter__",
   "__lookupSetter__"}

\* The functions a plain object inherits from Object.prototype, each with the
\* string it converts to.
ObjectPrototype ==
  ("constructor" :> NativeText("Object"))
    @@ [name \in ObjectPrototypeMethods |-> NativeText(name)]

\* Whether dist[key] holds a number: the keys that name a function of
\* Object.prototype hold strings.
IsCount(key) == key \notin DOMAIN ObjectPrototype

\* dist[key] = (dist[key] || 0) + 1 on a plain object.  A key the object does
\* not own is read from Object.prototype: an inherited function is truthy and
\* `+ 1` appends "1" to its text, and so does every later tally of the key;
\* "__proto__" reads the prototype itself and the assignment of a string to it
\* is ignored, so no key is made.
Tally(dist, key) ==
  IF key = "__proto__" THEN dist
  ELSE IF key \in DOMAIN dist
    THEN [dist EXCEPT ![key] = IF IsCount(key) THEN @ + 1 ELSE @ \o "1"]
  ELSE IF IsCount(key) THEN dist @@ (key :> 1)
  ELSE dist @@ (key :> (ObjectPrototype[key] \o "1"))

\* An object with no keys.
EmptyDist == [k \in {} |-> 0]

\* The loop of route.ts:198-203 over r.statusCode: the results are tallied
\* from the first to the last, the first half of the list and then the rest.
\* (The test of `first' has the first half evaluated before the rest, which
\* keeps the evaluation shallow.)
RECURSIVE StatusDistFrom(_, _)
StatusDistFrom(dist, rs) ==
  IF rs = <<>> THEN dist
  ELSE IF Len(rs) = 1 THEN Tally(dist, rs[1].statusCode)
  ELSE LET h == Len(rs) \div 2
           first == StatusDistFrom(dist, SubSeq(rs, 1, h))
       IN IF first = first THEN StatusDistFrom(first, SubSeq(rs, h + 1, Len(rs))) ELSE first

\* The loop of route.ts:198-203 over r.error, for the results with an error.
RECURSIVE ErrorDistFrom(_, _)
ErrorDistFrom(dist, rs) ==
  IF rs = <<>> THEN dist
  ELSE IF Len(rs) = 1
    THEN IF HasError(rs[1]) THEN Tally(dist, rs[1].error[1]) ELSE dist
  ELSE LET h == Len(rs) \div 2
           first == ErrorDistFrom(dist, SubSeq(rs, 1, h))
       IN IF first = first THEN ErrorDistFrom(first, SubSeq(rs, h + 1, Len(rs))) ELSE first

statusCodeDistributionOf(rs) == StatusDistFrom(EmptyDist, rs)
errorDistOf(rs) == ErrorDistFrom(EmptyDist, rs)

\* allResults.map(r => r.latency)
LatenciesOf(rs) == [k \in 1..Len(rs) |-> rs[k].latency]

\* The details entry of one result: error || ''.
DetailOf(r) ==
  [latency |-> r.latency,
   error |-> IF HasError(r) THEN r.error[1] ELSE "",
   status |-> r.statusCode]

\* The report built at route.ts:183-223 from allResults and the measured wall
\* duration.  rps is kept per nanosecond (the code scales it by 1e9).
BuildReport(rs, totalNs) ==
  LET latencies == LatenciesOf(rs)
      count == Len(rs)
  IN [count |-> count,
      total |-> totalNs,
      average |-> IF count > 0 THEN Frac(SumSeq(latencies), count) ELSE Zero,
      fastest |-> IF count > 0 THEN MinSeq(latencies) ELSE 0,
      slowest |-> IF count > 0 THEN MaxSeq(latencies) ELSE 0,
      rps |-> IF totalNs > 0 THEN Frac(count, totalNs) ELSE Zero,
      errorDist |-> errorDistOf(rs),
      statusCodeDistribution |-> statusCodeDistributionOf(rs),
      latencyDistribution |-> buildLatencyDistribution(latencies),
      histogram |-> buildHistogram(latencies, DefaultBucketCount),
      details |-> [k \in 1..Len(rs) |-> DetailOf(rs[k])]]

(***************************************************************************)
(* The request and the environment.                                        *)
(***************************************************************************)
\* The schema behind protoContent "valid": one service Greeter with the unary
\* method SayHello, and a message type HelloRequest.  grpc-js puts a method on
\* the client prototype under its name and under its camel-case name.
ClientMethods == <<"SayHello", "sayHello">>

\* String.prototype.toLowerCase on the method names the model draws.
ToLowerCase(m) ==
  CASE m = "SayHello" -> "sayhello"
    [] m = "sayHello" -> "sayhello"
    [] m = "SAYHELLO" -> "sayhello"
    [] m = "Unknown" -> "unknown"
    [] m = "toString" -> "tostring"
    [] OTHER -> m

\* clientMethods.find(m => m.toLowerCase() === method.toLowerCase()) || method
RECURSIVE FindMethod(_, _)
FindMethod(methods, method) ==
  IF methods = <<>> THEN method
  ELSE IF ToLowerCase(Head(methods)) = ToLowerCase(method) THEN Head(methods)
  ELSE FindMethod(Tail(methods), method)

\* Whether methodName is a method of the service, put on the client
\* prototype by grpc-js.
IsServiceMethod(methodName) == \E k \in 1..Len(ClientMethods) : ClientMethods[k] = methodName

\* The functions a client has apart from the methods of its service: those
\* every object inherits, and close (route.ts:181).
ClientInherited == {"constructor", "close"} \cup ObjectPrototypeMethods

\* Whether client[methodName] is a function.
IsClientFunction(methodName) == IsServiceMethod(methodName) \/ methodName \in ClientInherited

\* The class of the client, as grpc-js names it.
ClientClassName == "ServiceClientImpl"

\* route.ts:68: what client[methodName](requestData, metadataObj, callback)
\* does.  A method of the service sends the call, and the callback runs when
\* it is answered ("call").  Any other function is run with these arguments:
\* the constructor of the class and __defineGetter__ / __defineSetter__ (whose
\* second argument is no function) throw, the others return and the callback
\* is dropped ("returns").  What is no function throws at the call.
Dispatch(methodName) ==
  IF IsServiceMethod(methodName) THEN "call"
  ELSE IF ~IsClientFunction(methodName) THEN "throws"
  ELSE IF methodName \in {"constructor", "__defineGetter__", "__defineSetter__"} THEN "throws"
  ELSE "returns"

\* The message of the TypeError the dispatch throws.
DispatchError(methodName) ==
  CASE methodName = "constructor" ->
         "Class constructor " \o ClientClassName \o " cannot be invoked without 'new'"
    [] methodName \in {"__defineGetter__", "__defineSetter__"} ->
         "Object.prototype." \o methodName \o ": Expecting function"
    [] OTHER -> "client[methodName] is not a function"

\* What walking the loaded package by the service path ends at
\* (route.ts:126-130): a client constructor, an object that is no
\* constructor (a message type), or undefined.
LookupService(service) ==
  CASE service = "Greeter" -> "constructor"
    [] service = "HelloRequest" -> "object"
    [] OTHER -> "undefined"

\* The errors a target answers its calls with; None is a successful call.
ErrUnavailable == Some([code |-> Some(14), message |-> "14 UNAVAILABLE: no connection"])
ErrBare == Some([code |-> None, message |-> ""])
ErrConstructor == Some([code |-> Some(14), message |-> "constructor"])
ErrProto == Some([code |-> Some(14), message |-> "__proto__"])

\* The outcomes (error, elapsed nanoseconds) a call to the target can have.
TargetOutcomes(target) ==
  CASE target = "ok" -> {[err |-> None, latencyNs |-> 2]}
    [] target = "down" -> {[err |-> ErrUnavailable, latencyNs |-> 1]}
    [] target = "flaky" -> {[err |-> None, latencyNs |-> 2],
                            [err |-> None, latencyNs |-> 7],
                            [err |-> ErrUnavailable, latencyNs |-> 1],
                            [err |-> ErrBare, latencyNs |-> 3]}
    [] target = "named" -> {[err |-> ErrConstructor, latencyNs |-> 1],
                            [err |-> ErrProto, latencyNs |-> 1]}

Targets == {"ok", "down", "flaky", "named"}

\* config.c and config.n as the request carries them: absent, or a number.
ConcValues == {None} \cup {Some(v) : v \in -1..MaxConc}
TotalValues == {None} \cup {Some(v) : v \in -1..MaxTotal}

\* Requests that differ in the required fields, with a one-call configuration.
FieldRequests ==
  [protoContent : {"", "valid", "broken"},
   service : {"", "Greeter", "Missing", "HelloRequest"},
   method : {"", "SayHello", "SAYHELLO", "Unknown"},
   address : {"", "127.0.0.1:8081"},
   c : {Some(1)}, n : {Some(1)}, target : {"ok"}]

\* Requests that differ in the configuration and in the target's behaviour.
\* Runs longer than MaxTotal calls (the default number of requests) are drawn
\* against the targets with a single outcome only, and the pool of default
\* size on both sides (10 workers, 100 calls) for the request without a
\* configuration, against the target that answers every call.
ConfigRequests ==
  {r \in [protoContent : {"valid"}, service : {"Greeter"},
          method : {"SayHello", "Unknown", "toString", "close"},
          address : {"127.0.0.1:8081"},
          c : ConcValues, n : TotalValues, target : Targets] :
     /\ OrDefault(r.n, DefaultTotalRequests) > MaxTotal => r.target \notin {"flaky", "named"}
     /\ (/\ OrDefault(r.n, DefaultTotalRequests) > MaxTotal
         /\ OrDefault(r.c, DefaultConcurrency) > MaxConc)
          => (r.c = None /\ r.n = None /\ r.target = "ok")
     /\ r.method # "SayHello" => r.target = "ok"}

Requests == FieldRequests \cup ConfigRequests

(***************************************************************************)
(* The state of one POST request (route.ts:89-239).                        *)
(***************************************************************************)
VARIABLES
  req,              \* the request body and the target's behaviour
  pc,               \* where the handler stands
  tempDir,          \* the local tempDir: "null" or "set"
  dirExists,        \* whether the temp directory exists on disk
  rmAttempts,       \* how often fs.rm was called on it
  client,           \* the gRPC client: "none", "open" or "closed"
  closeCount,       \* how often client.close() ran
  concurrency,      \* the local concurrency
  totalRequests,    \* the local totalRequests
  methodName,       \* the local methodName
  completed,        \* the dispenser counter `completed`
  workers,          \* the promises of runWorker(), in launch order
  allResults,       \* the array allResults
  claimed,          \* history: the values of idx handed out, in order
  callsIssued,      \* history: how many calls were dispatched to the target
  totalDurationNs,  \* the local totalDurationNs
  thrown,           \* the message of the error on its way to the catch block
  response          \* the response the handler returns

\* The state of the aggregation on its own: a collection of completed calls
\* that is turned into CallResults and then into a report.
VARIABLES
  statCalls,        \* the callback arguments (err, elapsed) of the calls, in completion order
  statPc,           \* "idle", "calls", "done" or "twice"
  statMade,         \* the CallResults the callbacks have made, not yet pushed
  statResults,      \* the CallResults pushed so far
  statReport,       \* the report, once built
  statReport2       \* the report of a second aggregation of the same collection

statVars == <<statCalls, statPc, statMade, statResults, statReport, statReport2>>

StatIdle ==
  /\ statCalls = <<>>
  /\ statPc = "idle"
  /\ statMade = <<>>
  /\ statResults = <<>>
  /\ statReport = None
  /\ statReport2 = None

\* The state outside the single POST request.
VARIABLES
  runCfg,           \* per POST invocation: its concurrency and totalRequests
  runPc,            \* per POST invocation: "idle", "pool" or "done"
  runWorkers,       \* per POST invocation: the promises of its runWorker() calls
  counters,         \* the storage of the `completed` counters
  collections,      \* the storage of the `allResults` arrays
  runReport         \* per POST invocation: the report, once returned

runsVars == <<runCfg, runPc, runWorkers, counters, collections, runReport>>

RunsIdle ==
  /\ runCfg = <<>>
  /\ runPc = <<>>
  /\ runWorkers = <<>>
  /\ counters = <<>>
  /\ collections = <<>>
  /\ runReport = <<>>

VARIABLES
  steps,            \* the page state steps
  runSteps,         \* the steps runTests was started with (the `steps` of its closure)
  isRunning,        \* the page state isRunning
  currentStepIndex, \* the page state currentStepIndex: None (null) or Some(i)
  results,          \* the page state results
  testsPc,          \* where runTests stands: "off", "idle", "fetching" or "parsing"
  loopI,            \* the loop variable i of runTests
  responseOk,       \* response.ok of the response being parsed
  inFlight,         \* the steps whose request is sent and not yet answered
  sent,             \* the steps whose request was sent, in sending order
  settled,          \* the steps whose response arrived or whose request failed
  outcomes          \* how each finished step ended: "ok", "notok" or "threw"

testsVars ==
  <<steps, runSteps, isRunning, currentStepIndex, results, testsPc, loopI, responseOk,
    inFlight, sent, settled, outcomes>>

TestsIdle ==
  /\ steps = <<>>
  /\ runSteps = <<>>
  /\ isRunning = FALSE
  /\ currentStepIndex = None
  /\ results = <<>>
  /\ testsPc = "off"
  /\ loopI = 0
  /\ responseOk = FALSE
  /\ inFlight = {}
  /\ sent = <<>>
  /\ settled = {}
  /\ outcomes = <<>>

VARIABLES
  content,          \* the schema text given to parseProtoContent, as parsed
  protoPc,          \* where parseProtoContent stands: "off", "parse", "collect" or "done"
  protoTodo,        \* the message types collectTypes has yet to visit
  services,         \* the local services
  messageDefaults,  \* the local messageDefaults
  parsed            \* the value returned: None until the return

protoVars == <<content, protoPc, protoTodo, services, messageDefaults, parsed>>

ProtoIdle ==
  /\ content = <<>>
  /\ protoPc = "off"
  /\ protoTodo = <<>>
  /\ services = <<>>
  /\ messageDefaults = <<>>
  /\ parsed = None

outsideVars == <<statVars, runsVars, testsVars, protoVars>>

OutsideIdle == StatIdle /\ RunsIdle /\ TestsIdle /\ ProtoIdle

postVars == <<req, pc, tempDir, dirExists, rmAttempts, client, closeCount, concurrency,
              totalRequests, methodName, completed, workers, allResults, claimed,
              callsIssued, totalDurationNs, thrown, response>>

vars == <<postVars, outsideVars>>

fsVars == <<tempDir, dirExists, rmAttempts>>
configVars == <<concurrency, totalRequests, methodName>>
poolVars == <<completed, workers, allResults, claimed, callsIssued>>

NoResponse == [status |-> 0, error |-> "", missing |-> <<>>, report |-> None]

Init ==
  /\ req \in Requests
  /\ pc = "start"
  /\ tempDir = "null"
  /\ dirExists = FALSE
  /\ rmAttempts = 0
  /\ client = "none"
  /\ closeCount = 0
  /\ concurrency = 0
  /\ totalRequests = 0
  /\ methodName = ""
  /\ completed = 0
  /\ workers = <<>>
  /\ allResults = <<>>
  /\ claimed = <<>>
  /\ callsIssued = 0
  /\ totalDurationNs = 0
  /\ thrown = ""
  /\ response = NoResponse
  /\ OutsideIdle

\* The names of the required fields that are falsy, in the order of
\* route.ts:98-101.
MissingFields(r) ==
  (IF ~TruthyStr(r.protoContent) THEN <<"protoContent">> ELSE <<>>)
  \o (IF ~TruthyStr(r.service) THEN <<"service">> ELSE <<>>)
  \o (IF ~TruthyStr(r.method) THEN <<"method">> ELSE <<>>)
  \o (IF ~TruthyStr(r.address) THEN <<"address">> ELSE <<>>)

\* The check of the required fields without the address.
AnyRequiredMissingNoAddress(r) ==
  \/ ~TruthyStr(r.protoContent)
  \/ ~TruthyStr(r.service)
  \/ ~TruthyStr(r.method)

\* route.ts:96  !protoContent || !service || !method || !address
AnyRequiredMissing(r) ==
  \/ ~TruthyStr(r.protoContent)
  \/ ~TruthyStr(r.service)
  \/ ~TruthyStr(r.method)
  \/ ~TruthyStr(r.address)

\* route.ts:93-107: the required fields, then the defaults of the configuration.
CheckRequest ==
  /\ pc = "start"
  /\ IF AnyRequiredMissing(req)
       THEN /\ response' = [NoResponse EXCEPT !.status = 400,
                                              !.error = "Missing required fields",
                                              !.missing = MissingFields(req)]
            /\ pc' = "finally"
            /\ UNCHANGED configVars
       ELSE /\ concurrency' = OrDefault(req.c, DefaultConcurrency)
            /\ totalRequests' = OrDefault(req.n, DefaultTotalRequests)
            /\ pc' = "mkdtemp"
            /\ UNCHANGED <<methodName, response>>
  /\ UNCHANGED <<outsideVars, req, fsVars, client, closeCount, poolVars, totalDurationNs, thrown>>

\* route.ts:110: await fs.mkdtemp(...), which creates the directory or throws.
MakeTempDir ==
  /\ pc = "mkdtemp"
  /\ \E ok \in BOOLEAN :
       IF ok
         THEN /\ tempDir' = "set"
              /\ dirExists' = TRUE
              /\ pc' = "write"
              /\ UNCHANGED thrown
         ELSE /\ thrown' = "ENOSPC: mkdtemp failed"
              /\ pc' = "catch"
              /\ UNCHANGED <<tempDir, dirExists>>
  /\ UNCHANGED <<outsideVars, req, rmAttempts, client, closeCount, configVars, poolVars,
                 totalDurationNs, response>>

\* route.ts:111-112: await fs.writeFile(protoPath, protoContent), which writes
\* the schema into the directory or throws.
WriteProto ==
  /\ pc = "write"
  /\ \E ok \in BOOLEAN :
       IF ok
         THEN pc' = "load" /\ UNCHANGED thrown
         ELSE pc' = "catch" /\ thrown' = "ENOSPC: no space left on device, write"
  /\ UNCHANGED <<outsideVars, req, fsVars, client, closeCount, configVars, poolVars,
                 totalDurationNs, response>>

\* route.ts:115-123: await protoLoader.load(protoPath, ...); a schema that does
\* not parse throws.
LoadProto ==
  /\ pc = "load"
  /\ IF req.protoContent = "valid"
       THEN pc' = "service" /\ UNCHANGED thrown
       ELSE pc' = "catch" /\ thrown' = "illegal token in service.proto"
  /\ UNCHANGED <<outsideVars, req, fsVars, client, closeCount, configVars, poolVars,
                 totalDurationNs, response>>

\* route.ts:125-160: find the service, create the client and the metadata,
\* find the method name, set up allResults and completed.
CreateClient ==
  /\ pc = "service"
  /\ LET found == LookupService(req.service)
     IN CASE found = "undefined" ->
               /\ response' = [NoResponse EXCEPT
                                 !.status = 400,
                                 !.error = "Service \"" \o req.service
                                             \o "\" not found in proto definition"]
               /\ pc' = "finally"
               /\ UNCHANGED <<client, methodName, thrown>>
          [] found = "object" ->
               /\ thrown' = "ServiceConstructor is not a constructor"
               /\ pc' = "catch"
               /\ UNCHANGED <<client, methodName, response>>
          [] found = "constructor" ->
               /\ client' = "open"
               /\ methodName' = FindMethod(ClientMethods, req.method)
               /\ pc' = "launch"
               /\ UNCHANGED <<thrown, response>>
  /\ UNCHANGED <<outsideVars, req, fsVars, closeCount, concurrency, totalRequests, poolVars,
                 totalDurationNs>>

(***************************************************************************)
(* The worker pool (route.ts:160-175).                                     *)
(***************************************************************************)
\* The loop guard with an off-by-one bound: the last index is never claimed.
MoreWorkOffByOne(done, total) == done < total - 1

\* while (completed < totalRequests)
MoreWork(done, total) == done < total

\* A claim that reads the counter and does not advance it.
NextCompletedStuck(done) == done

\* completed++ : the value of the counter after a claim.
NextCompleted(done) == done + 1

\* allResults.push(result)
PushResult(rs, result) == Append(rs, result)

\* A launch loop bounded by the concurrency alone.
WorkerCountNoMin(c, n) == c

\* Math.min(concurrency, totalRequests), the bound of the launch loop.
WorkerCount(c, n) == Min(c, n)

\* A worker that is suspended at its await with its call sent ("awaiting"),
\* one whose call has resolved and that has not resumed yet ("resolved"), one
\* suspended at the await of a promise nothing will settle ("pending"), one
\* that returned ("done"), one that threw ("rejected").
WorkerAt(st, result) == [st |-> st, result |-> result]

\* runWorker from the head of its loop to its next suspension or to its end,
\* for the worker in slot w of ws: claim an index, dispatch the call.  A
\* dispatch that throws does so inside the promise executor, which rejects
\* the call's promise and, at the await, the worker.  A dispatch that runs a
\* function other than a method of the service leaves the promise pending for
\* ever; if that function is close, the client is closed by it.
RunWorker(w, ws) ==
  IF MoreWork(completed, totalRequests)
    THEN LET idx == completed
         IN /\ completed' = NextCompleted(completed)
            /\ claimed' = Append(claimed, idx)
            /\ IF idx >= totalRequests
                 THEN /\ workers' = [ws EXCEPT ![w] = WorkerAt("done", None)]
                      /\ UNCHANGED <<callsIssued, client, closeCount>>
                 ELSE CASE Dispatch(methodName) = "call" ->
                             /\ workers' = [ws EXCEPT ![w] = WorkerAt("awaiting", None)]
                             /\ callsIssued' = callsIssued + 1
                             /\ UNCHANGED <<client, closeCount>>
                        [] Dispatch(methodName) = "returns" ->
                             /\ workers' = [ws EXCEPT ![w] = WorkerAt("pending", None)]
                             /\ IF methodName = "close"
                                  THEN /\ client' = "closed"
                                       /\ closeCount' = closeCount + 1
                                  ELSE UNCHANGED <<client, closeCount>>
                             /\ UNCHANGED callsIssued
                        [] Dispatch(methodName) = "throws" ->
                             /\ workers' = [ws EXCEPT ![w] = WorkerAt("rejected", None)]
                             /\ UNCHANGED <<callsIssued, client, closeCount>>
    ELSE /\ workers' = [ws EXCEPT ![w] = WorkerAt("done", None)]
         /\ UNCHANGED <<completed, claimed, callsIssued, client, closeCount>>

\* route.ts:172-174: one iteration of the launch loop.  runWorker() runs
\* synchronously up to its first await.
LaunchWorker ==
  /\ pc = "launch"
  /\ Len(workers) < WorkerCount(concurrency, totalRequests)
  /\ RunWorker(Len(workers) + 1, Append(workers, WorkerAt("done", None)))
  /\ UNCHANGED <<outsideVars, req, pc, fsVars, configVars, allResults, totalDurationNs,
                 thrown, response>>

\* route.ts:175: the launch loop is over, the handler awaits Promise.all.
AwaitWorkers ==
  /\ pc = "launch"
  /\ ~(Len(workers) < WorkerCount(concurrency, totalRequests))
  /\ pc' = "barrier"
  /\ UNCHANGED <<outsideVars, req, fsVars, client, closeCount, configVars, poolVars,
                 totalDurationNs, thrown, response>>

\* route.ts:68-85: the target answers the call of worker w and the callback
\* resolves the call's promise.  No callback runs during the launch loop.
Callback(w) ==
  /\ pc # "launch"
  /\ w \in 1..Len(workers)
  /\ workers[w].st = "awaiting"
  /\ \E o \in TargetOutcomes(req.target) :
       workers' = [workers EXCEPT
                     ![w] = WorkerAt("resolved", Some(MakeResult(o.err, o.latencyNs)))]
  /\ UNCHANGED <<outsideVars, req, pc, fsVars, client, closeCount, configVars, completed,
                 allResults, claimed, callsIssued, totalDurationNs, thrown, response>>

\* route.ts:165-167 and 162-165: worker w resumes after its await, appends
\* the result and goes round its loop.
Resume(w) ==
  /\ w \in 1..Len(workers)
  /\ workers[w].st = "resolved"
  /\ allResults' = PushResult(allResults, workers[w].result[1])
  /\ RunWorker(w, workers)
  /\ UNCHANGED <<outsideVars, req, pc, fsVars, configVars, totalDurationNs, thrown, response>>

\* A barrier that opens with the first worker that returns (Promise.race).
AnyFulfilled(ws) == ws = <<>> \/ \E k \in 1..Len(ws) : ws[k].st = "done"

\* Promise.all(workers) fulfils when every worker has returned.
AllFulfilled(ws) == \A k \in 1..Len(ws) : ws[k].st = "done"

\* Promise.all(workers) rejects when a worker has thrown.
AnyRejected(ws) == \E k \in 1..Len(ws) : ws[k].st = "rejected"

\* The wall-clock span the handler can measure around the pool: at least the
\* slowest call; at most the calls one after the other plus overhead.
DurationChoices(rs) ==
  IF rs = <<>> THEN {0, 1}
  ELSE {MaxSeq(LatenciesOf(rs)), SumSeq(LatenciesOf(rs)) + 1}

\* route.ts:175-181: the await of Promise.all returns; the duration is
\* measured and the client closed.
BarrierPass ==
  /\ pc = "barrier"
  /\ AllFulfilled(workers)
  /\ \E d \in DurationChoices(allResults) : totalDurationNs' = d
  /\ client' = "closed"
  /\ closeCount' = closeCount + 1
  /\ pc' = "aggregate"
  /\ UNCHANGED <<outsideVars, req, fsVars, configVars, poolVars, thrown, response>>

\* route.ts:175, 227: the await of Promise.all throws the worker's error.
BarrierReject ==
  /\ pc = "barrier"
  /\ AnyRejected(workers)
  /\ thrown' = DispatchError(methodName)
  /\ pc' = "catch"
  /\ UNCHANGED <<outsideVars, req, fsVars, client, closeCount, configVars, poolVars,
                 totalDurationNs, response>>

\* route.ts:183-225: the statistics and the report.
Aggregate ==
  /\ pc = "aggregate"
  /\ response' = [NoResponse EXCEPT
                    !.status = 200,
                    !.report = Some(BuildReport(allResults, totalDurationNs))]
  /\ pc' = "finally"
  /\ UNCHANGED <<outsideVars, req, fsVars, client, closeCount, configVars, poolVars,
                 totalDurationNs, thrown>>

\* route.ts:227-229: error.message || 'Internal Server Error', status 500.
CatchError ==
  /\ pc = "catch"
  /\ response' = [NoResponse EXCEPT
                    !.status = 500,
                    !.error = IF TruthyStr(thrown) THEN thrown ELSE "Internal Server Error"]
  /\ pc' = "finally"
  /\ UNCHANGED <<outsideVars, req, fsVars, client, closeCount, configVars, poolVars,
                 totalDurationNs, thrown>>

\* A cleanup that does not look at tempDir.
CleanupAlways(dir) == TRUE

\* route.ts:231: if (tempDir)
NeedsCleanup(dir) == dir = "set"

\* route.ts:230-233: the finally block.  If a temp directory was created,
\* fs.rm is called on it and the handler waits for the removal; otherwise the
\* block is left and the response is delivered.
Finally ==
  /\ pc = "finally"
  /\ IF NeedsCleanup(tempDir)
       THEN /\ rmAttempts' = rmAttempts + 1
            /\ pc' = "removing"
       ELSE /\ pc' = "done"
            /\ UNCHANGED rmAttempts
  /\ UNCHANGED <<outsideVars, req, tempDir, dirExists, client, closeCount, configVars,
                 poolVars, totalDurationNs, thrown, response>>

\* route.ts:233-236: the removal settles.  Fulfilled, the directory is gone;
\* rejected, the error is logged and swallowed and the directory stays.  The
\* finally block is left and the response is delivered.
RemoveSettles ==
  /\ pc = "removing"
  /\ \E ok \in BOOLEAN : dirExists' = IF ok THEN FALSE ELSE dirExists
  /\ pc' = "done"
  /\ UNCHANGED <<outsideVars, req, tempDir, rmAttempts, client, closeCount, configVars,
                 poolVars, totalDurationNs, thrown, response>>

Next ==
  \/ CheckRequest
  \/ MakeTempDir
  \/ WriteProto
  \/ LoadProto
  \/ CreateClient
  \/ LaunchWorker
  \/ AwaitWorkers
  \/ \E w \in 1..Len(workers) : Callback(w)
  \/ \E w \in 1..Len(workers) : Resume(w)
  \/ BarrierPass
  \/ BarrierReject
  \/ Aggregate
  \/ CatchError
  \/ Finally
  \/ RemoveSettles

Spec == Init /\ [][Next]_vars

\* No POST request is being handled.
PostIdle ==
  /\ req = [protoContent |-> "", service |-> "", method |-> "", address |-> "",
            c |-> None, n |-> None, target |-> "ok"]
  /\ pc = "idle"
  /\ tempDir = "null"
  /\ dirExists = FALSE
  /\ rmAttempts = 0
  /\ client = "none"
  /\ closeCount = 0
  /\ concurrency = 0
  /\ totalRequests = 0
  /\ methodName = ""
  /\ completed = 0
  /\ workers = <<>>
  /\ allResults = <<>>
  /\ claimed = <<>>
  /\ callsIssued = 0
  /\ totalDurationNs = 0
  /\ thrown = ""
  /\ response = NoResponse

(***************************************************************************)
(* The call invoker and the aggregation on their own (route.ts:21-87 and   *)
(* 183-223): a bounded collection of completed calls, each turned into a   *)
(* CallResult by the callback of makeUnaryCall and pushed, then the report. *)
(***************************************************************************)
\* Largest number of completed calls of a collection.
MaxSamples == 3

\* Errors a callback can be given, beside those of the targets above.
ErrCodeZero == Some([code |-> Some(0), message |-> ""])
ErrUnknownCode == Some([code |-> Some(99), message |-> "boom"])
ErrNoCode == Some([code |-> None, message |-> "socket hang up"])
ErrDeadline == Some([code |-> Some(4), message |-> ""])

\* The callback arguments the collections are drawn from.
CallSamples ==
  {[err |-> None, latencyNs |-> 2],
   [err |-> None, latencyNs |-> 7],
   [err |-> None, latencyNs |-> 25],
   [err |-> ErrUnavailable, latencyNs |-> 1],
   [err |-> ErrBare, latencyNs |-> 3],
   [err |-> ErrCodeZero, latencyNs |-> 5],
   [err |-> ErrUnknownCode, latencyNs |-> 12],
   [err |-> ErrNoCode, latencyNs |-> 4],
   [err |-> ErrDeadline, latencyNs |-> 9],
   [err |-> ErrConstructor, latencyNs |-> 6],
   [err |-> ErrProto, latencyNs |-> 8]}

\* Successful calls with the latencies n, n-1, ..., 1, in that order.
RampCollection(n) == [k \in 1..n |-> [err |-> None, latencyNs |-> n + 1 - k]]
RampSizes == {10, 100}

\* The workers of the pool whose calls are collected.
StatWorkers == 2

\* The collections of at most MaxSamples calls, in every completion order,
\* and the ramps.
CallCollections ==
  UNION {[1..n -> CallSamples] : n \in 0..MaxSamples}
    \cup {RampCollection(n) : n \in RampSizes}

StatInit ==
  /\ PostIdle
  /\ ProtoIdle
  /\ RunsIdle
  /\ TestsIdle
  /\ statCalls \in CallCollections
  /\ statPc = "calls"
  /\ statMade = <<>>
  /\ statResults = <<>>
  /\ statReport = None
  /\ statReport2 = None

\* route.ts:68-85: the next call completes; its callback makes the CallResult
\* and resolves the promise its worker awaits.  Each of the StatWorkers
\* workers awaits one call, so at most that many results are made and not
\* yet pushed.
StatCallback ==
  /\ statPc = "calls"
  /\ Len(statResults) + Len(statMade) < Len(statCalls)
  /\ Len(statMade) < StatWorkers
  /\ LET call == statCalls[Len(statResults) + Len(statMade) + 1]
     IN statMade' = Append(statMade, MakeResult(call.err, call.latencyNs))
  /\ UNCHANGED <<postVars, protoVars, runsVars, testsVars, statCalls, statPc, statResults,
                 statReport, statReport2>>

\* route.ts:165-166: the worker whose promise was resolved first resumes
\* after its await and pushes the result.
StatResume ==
  /\ statPc = "calls"
  /\ statMade # <<>>
  /\ statResults' = PushResult(statResults, Head(statMade))
  /\ statMade' = Tail(statMade)
  /\ UNCHANGED <<postVars, protoVars, runsVars, testsVars, statCalls, statPc, statReport,
                 statReport2>>

\* route.ts:183-223: every call has completed; the report is built.
StatAggregate ==
  /\ statPc = "calls"
  /\ Len(statResults) = Len(statCalls)
  /\ \E d \in DurationChoices(statResults) :
       statReport' = Some(BuildReport(statResults, d))
  /\ statPc' = "done"
  /\ UNCHANGED <<postVars, protoVars, runsVars, testsVars, statCalls, statMade, statResults,
                 statReport2>>

\* route.ts:183-223 applied once more to the collection the first
\* aggregation has read (map, filter, for...of and the sorts of copies write
\* nothing to it) and to the wall duration measured before it
\* (route.ts:177-178).
StatAggregateAgain ==
  /\ statPc = "done"
  /\ statReport2' = Some(BuildReport(statResults, statReport[1].total))
  /\ statPc' = "twice"
  /\ UNCHANGED <<postVars, protoVars, runsVars, testsVars, statCalls, statMade, statResults,
                 statReport>>

StatNext ==
  \/ StatCallback
  \/ StatResume
  \/ StatAggregate
  \/ StatAggregateAgain

SpecStats == StatInit /\ [][StatNext]_vars

(***************************************************************************)
(* Several invocations of POST in the one process (route.ts:156-175): each *)
(* invocation declares its own `completed` and `allResults`; the workers   *)
(* of the invocations suspend and resume in any order.                     *)
(***************************************************************************)
\* The number of invocations, and the largest totalRequests and concurrency
\* of one.
NumRuns == 2
MaxRunTotal == 2
MaxRunConc == 2

RunIds == 1..NumRuns
RunConfigs == [concurrency : 1..MaxRunConc, totalRequests : 1..MaxRunTotal]

\* The target of invocation r: the first is served, the others are not.
RunTarget(r) == IF r = 1 THEN "ok" ELSE "down"

\* One counter and one array for the module, shared by the invocations.
SlotShared(r) == 1

\* route.ts:157 and 160: `const allResults = []` and `let completed = 0` are
\* locals of the invocation, so invocation r has storage of its own.
SlotOf(r) == r

\* route.ts:162-165: runWorker from the head of its loop to its next await or
\* to its end: the counter afterwards and the state of the worker.
PoolStep(counter, total) ==
  IF MoreWork(counter, total)
    THEN [counter |-> NextCompleted(counter), worker |-> WorkerAt("awaiting", None)]
    ELSE [counter |-> counter, worker |-> WorkerAt("done", None)]

\* route.ts:172-174: k calls of runWorker() in a row.
RECURSIVE PoolLaunch(_, _, _)
PoolLaunch(k, counter, total) ==
  IF k = 0 THEN [counter |-> counter, workers |-> <<>>]
  ELSE LET before == PoolLaunch(k - 1, counter, total)
           step == PoolStep(before.counter, total)
       IN [counter |-> step.counter, workers |-> Append(before.workers, step.worker)]

RunsInit ==
  /\ PostIdle
  /\ ProtoIdle
  /\ StatIdle
  /\ TestsIdle
  /\ runCfg \in [RunIds -> RunConfigs]
  /\ runPc = [r \in RunIds |-> "idle"]
  /\ runWorkers = [r \in RunIds |-> <<>>]
  /\ counters = [r \in RunIds |-> 0]
  /\ collections = [r \in RunIds |-> <<>>]
  /\ runReport = [r \in RunIds |-> None]

\* route.ts:157-175: invocation r declares its locals and launches its
\* workers, each running to its first await; then it awaits Promise.all.
RunStart(r) ==
  /\ runPc[r] = "idle"
  /\ LET launched == PoolLaunch(WorkerCount(runCfg[r].concurrency, runCfg[r].totalRequests),
                               0, runCfg[r].totalRequests)
     IN /\ counters' = [counters EXCEPT ![SlotOf(r)] = launched.counter]
        /\ collections' = [collections EXCEPT ![SlotOf(r)] = <<>>]
        /\ runWorkers' = [runWorkers EXCEPT ![r] = launched.workers]
  /\ runPc' = [runPc EXCEPT ![r] = "pool"]
  /\ UNCHANGED <<postVars, protoVars, statVars, testsVars, runCfg, runReport>>

\* route.ts:68-85: the call of worker w of invocation r is answered.  The
\* result remembers the invocation that issued the call.
RunCallback(r, w) ==
  /\ runPc[r] = "pool"
  /\ w \in 1..Len(runWorkers[r])
  /\ runWorkers[r][w].st = "awaiting"
  /\ \E o \in TargetOutcomes(RunTarget(r)) :
       runWorkers' = [runWorkers EXCEPT
                        ![r][w] = WorkerAt("resolved",
                                           Some([by |-> r] @@ MakeResult(o.err, o.latencyNs)))]
  /\ UNCHANGED <<postVars, protoVars, statVars, testsVars, runCfg, runPc, counters, collections, runReport>>

\* route.ts:165-167 and 162-165: worker w of invocation r resumes, appends
\* the result to the invocation's allResults and goes round its loop.
RunResume(r, w) ==
  /\ runPc[r] = "pool"
  /\ w \in 1..Len(runWorkers[r])
  /\ runWorkers[r][w].st = "resolved"
  /\ LET step == PoolStep(counters[SlotOf(r)], runCfg[r].totalRequests)
     IN /\ collections' = [collections EXCEPT
                             ![SlotOf(r)] = PushResult(@, runWorkers[r][w].result[1])]
        /\ counters' = [counters EXCEPT ![SlotOf(r)] = step.counter]
        /\ runWorkers' = [runWorkers EXCEPT ![r][w] = step.worker]
  /\ UNCHANGED <<postVars, protoVars, statVars, testsVars, runCfg, runPc, runReport>>

\* route.ts:175-225: the barrier of invocation r opens and its report is
\* built from its allResults.  `from` lists the issuers of the results.
RunReport(r) ==
  /\ runPc[r] = "pool"
  /\ AllFulfilled(runWorkers[r])
  /\ LET rs == collections[SlotOf(r)]
     IN \E d \in DurationChoices(rs) :
          runReport' = [runReport EXCEPT
                          ![r] = Some([report |-> BuildReport(rs, d),
                                       from |-> [k \in 1..Len(rs) |-> rs[k].by]])]
  /\ runPc' = [runPc EXCEPT ![r] = "done"]
  /\ UNCHANGED <<postVars, protoVars, statVars, testsVars, runCfg, runWorkers, counters, collections>>

RunsNext ==
  \E r \in RunIds :
    \/ RunStart(r)
    \/ \E w \in 1..Len(runWorkers[r]) : RunCallback(r, w)
    \/ \E w \in 1..Len(runWorkers[r]) : RunResume(r, w)
    \/ RunReport(r)

SpecRuns == RunsInit /\ [][RunsNext]_vars

(***************************************************************************)
(* The page's runTests (route.ts:352-411 holds page.tsx): one request per  *)
(* configured step.  Steps are numbered from 0, as the loop variable i.     *)
(***************************************************************************)
\* The largest number of configured steps.
MaxSteps == 2

\* The greatest number of failed calls in the report of a step.
MaxFailed == 2

\* The step the page starts with, and the one addStep appends (route.ts:272-274,
\* part_000:123-125).  A field of a step is a number or NaN; NaN is None,
\* which is also what JSON.stringify sends for it (null).
NewStep == [c |-> Some(10), n |-> Some(100)]

\* part_000:289, 297: parseInt of the text typed into the Concurrency or the
\* Total Requests input, here "0".  (An input cleared gives NaN, which is
\* falsy as 0 is.)
StepValues == {Some(0)}

\* The error field of the body of a response that is not ok; "" stands for a
\* body without one.
ErrorBodies == {"Internal server error", ""}

\* The results of the failed calls of a run of n calls, of which at most
\* MaxFailed fail, each with one of the target's errors.
FailedResults(n) ==
  UNION {[1..f -> {MakeResult(e, 1) : e \in {ErrUnavailable, ErrBare, ErrConstructor}}] :
           f \in 0..Min(n, MaxFailed)}

\* The errorDist of a report of n calls (route.ts:196-203, 213): every failed
\* call is counted under its text.
ReportErrorDists(n) == {errorDistOf(rs) : rs \in FailedResults(n)}

\* The count of the report POST answers the request of a step with
\* (route.ts:105-106, 161-176, 187): the calls of the pool, all of
\* totalRequests = n || 100 when Math.min(c || 10, totalRequests) workers are
\* launched, none when the launch loop does not run.
ReportCount(step) ==
  LET conc == OrDefault(step.c, DefaultConcurrency)
      total == OrDefault(step.n, DefaultTotalRequests)
  IN IF WorkerCount(conc, total) >= 1 THEN total ELSE 0

\* The bodies of the ok responses to the request of a step: the report of the
\* calls of its run.
OkBodies(step) ==
  {[count |-> ReportCount(step), errorDist |-> d] : d \in ReportErrorDists(ReportCount(step))}

\* A loop that advances by two.
NextIndexSkip(i) == i + 2

\* i++ of the for loop.
NextIndex(i) == i + 1

\* route.ts:388-389: the entry appended for an ok response is the body of the
\* response.  `step` remembers the step the entry answers.
OkEntry(i, body) == [step |-> i, count |-> body.count, errorDist |-> body.errorDist]

\* A placeholder that keeps the number of calls the step asked for.
FailedEntryKeepsCount(i, error) ==
  [step |-> i, count |-> ReportCount(runSteps[i + 1]),
   errorDist |-> ((IF TruthyStr(error) THEN error ELSE "API Error") :> 1)]

\* route.ts:394-404: the entry appended for a response that is not ok.
FailedEntry(i, error) ==
  [step |-> i, count |-> 0,
   errorDist |-> ((IF TruthyStr(error) THEN error ELSE "API Error") :> 1)]

\* route.ts:356-384 and 408-410: the for loop at index i, with fl the requests
\* in flight: either the request of step i is sent and runTests suspends at
\* `await fetch`, or the loop is over and runTests ends.  `steps` in runTests
\* is the list of the render the Run button was clicked in; the `response`
\* of the iteration that ended is gone.
LoopHead(i, fl) ==
  /\ responseOk' = FALSE
  /\ IF i < Len(runSteps)
       THEN /\ currentStepIndex' = Some(i)
            /\ inFlight' = fl \cup {i}
            /\ sent' = Append(sent, i)
            /\ testsPc' = "fetching"
            /\ loopI' = i
            /\ UNCHANGED isRunning
       ELSE /\ isRunning' = FALSE
            /\ currentStepIndex' = None
            /\ inFlight' = fl
            /\ testsPc' = "idle"
            /\ loopI' = i
            /\ UNCHANGED sent

\* route.ts:272-278: the page as it is first rendered.
TestsInit ==
  /\ PostIdle
  /\ ProtoIdle
  /\ StatIdle
  /\ RunsIdle
  /\ steps = <<NewStep>>
  /\ runSteps = <<>>
  /\ isRunning = FALSE
  /\ currentStepIndex = None
  /\ results = <<>>
  /\ testsPc = "idle"
  /\ loopI = 0
  /\ responseOk = FALSE
  /\ inFlight = {}
  /\ sent = <<>>
  /\ settled = {}
  /\ outcomes = <<>>

runVars ==
  <<runSteps, isRunning, currentStepIndex, results, testsPc, loopI, responseOk,
    inFlight, sent, settled, outcomes>>

\* part_000:123-125 and 310-315: the Add Step button appends a step.
addStep ==
  /\ Len(steps) < MaxSteps
  /\ steps' = Append(steps, NewStep)
  /\ UNCHANGED <<postVars, protoVars, statVars, runsVars, runVars>>

\* part_000:127-129 and 281-283: the remove button of a step filters the step
\* of that id out; the ids of a list differ (route.ts:273, part_000:124), so
\* this is the step at one position k.
removeStep(k) ==
  /\ steps' = [j \in 1..(Len(steps) - 1) |-> IF j < k THEN steps[j] ELSE steps[j + 1]]
  /\ UNCHANGED <<postVars, protoVars, statVars, runsVars, runVars>>

\* part_000:131-133 and 287-305: a number typed into the Concurrency or the
\* Total Requests input of the step at position k replaces that field.
updateStep(k, field, value) ==
  /\ steps' = [steps EXCEPT ![k] = [@ EXCEPT ![field] = value]]
  /\ UNCHANGED <<postVars, protoVars, statVars, runsVars, runVars>>

\* route.ts:352-384: the Run button (disabled while isRunning or without
\* steps, part_000:326) calls runTests, which runs to its first await.
RunTests ==
  /\ testsPc = "idle"
  /\ ~isRunning
  /\ Len(steps) # 0
  /\ runSteps' = steps
  /\ results' = <<>>
  /\ settled' = {}
  /\ outcomes' = <<>>
  /\ IF 0 < Len(steps)
       THEN /\ isRunning' = TRUE
            /\ currentStepIndex' = Some(0)
            /\ inFlight' = inFlight \cup {0}
            /\ sent' = <<0>>
            /\ testsPc' = "fetching"
            /\ loopI' = 0
       ELSE /\ isRunning' = FALSE
            /\ currentStepIndex' = None
            /\ sent' = <<>>
            /\ UNCHANGED <<inFlight, testsPc, loopI>>
  /\ UNCHANGED <<postVars, protoVars, statVars, runsVars, steps, responseOk>>

\* route.ts:370-386: the response of the step's request arrives; runTests
\* resumes and suspends at `await response.json()`.
FetchResolve ==
  /\ testsPc = "fetching"
  /\ \E ok \in BOOLEAN : responseOk' = ok
  /\ inFlight' = inFlight \ {loopI}
  /\ settled' = settled \cup {loopI}
  /\ testsPc' = "parsing"
  /\ UNCHANGED <<postVars, protoVars, statVars, runsVars, steps, runSteps, isRunning,
                 currentStepIndex, results, loopI, sent, outcomes>>

\* route.ts:370 and 405-407: the request fails, fetch rejects; the catch logs
\* and the loop goes on.
FetchReject ==
  /\ testsPc = "fetching"
  /\ settled' = settled \cup {loopI}
  /\ outcomes' = Append(outcomes, "threw")
  /\ LoopHead(NextIndex(loopI), inFlight \ {loopI})
  /\ UNCHANGED <<postVars, protoVars, statVars, runsVars, steps, runSteps, results>>

\* route.ts:386-404: the body is parsed; an entry is appended and the loop
\* goes on.
JsonResolve ==
  /\ testsPc = "parsing"
  /\ IF responseOk
       THEN \E body \in OkBodies(runSteps[loopI + 1]) :
              results' = Append(results, OkEntry(loopI, body))
       ELSE \E error \in ErrorBodies : results' = Append(results, FailedEntry(loopI, error))
  /\ outcomes' = Append(outcomes, IF responseOk THEN "ok" ELSE "notok")
  /\ LoopHead(NextIndex(loopI), inFlight)
  /\ UNCHANGED <<postVars, protoVars, statVars, runsVars, steps, runSteps, settled>>

\* route.ts:386 and 405-407: the body is not JSON, response.json() rejects;
\* the catch logs and the loop goes on.
JsonReject ==
  /\ testsPc = "parsing"
  /\ outcomes' = Append(outcomes, "threw")
  /\ LoopHead(NextIndex(loopI), inFlight)
  /\ UNCHANGED <<postVars, protoVars, statVars, runsVars, steps, runSteps, results, settled>>

TestsNext ==
  \/ addStep
  \/ \E k \in 1..Len(steps) : removeStep(k)
  \/ \E k \in 1..Len(steps), field \in {"c", "n"}, value \in StepValues :
       updateStep(k, field, value)
  \/ RunTests
  \/ FetchResolve
  \/ FetchReject
  \/ JsonResolve
  \/ JsonReject

SpecTests == TestsInit /\ [][TestsNext]_vars

\* Every request eventually settles (its response arrives or it fails), and
\* the parsing of a body that has arrived ends.
FairTests ==
  /\ TestsInit
  /\ [][TestsNext]_vars
  /\ WF_vars(FetchResolve \/ FetchReject)
  /\ WF_vars(JsonResolve \/ JsonReject)

(***************************************************************************)
(* parseProtoContent (part_001:18-133): the schema is parsed into a root   *)
(* that already holds the common google types, the services are collected, *)
(* and for every message type a default payload is built by                *)
(* getMessageDefaults.  A JavaScript value is a record: [json |-> text]    *)
(* for a scalar, a key or an empty array, [obj |-> fields] for an object.  *)
(***************************************************************************)
\* The largest number of fields of the first message of a schema.
MaxFields == 2

JsZero == [json |-> "0"]
JsEmptyString == [json |-> "''"]
JsFalse == [json |-> "false"]
JsNull == [json |-> "null"]
JsEmptyArray == [json |-> "[]"]
JsKey(name) == [json |-> name]
JsObject(fields) == [obj |-> fields]

\* What the engine throws when the call stack is exhausted.
RangeError == [thrown |-> "RangeError: Maximum call stack size exceeded"]

\* part_001:65-81: the default of a scalar field.
ScalarDefault(type) ==
  CASE type = "string" -> JsEmptyString
    [] type = "bool" -> JsFalse
    [] type \in {"double", "float", "int32", "uint32", "sint32", "fixed32", "sfixed32",
                 "int64", "uint64", "sint64", "fixed64", "sfixed64"} -> JsZero
    [] OTHER -> JsNull

FieldOf(name, type, repeated) == [name |-> name, type |-> type, repeated |-> repeated]

\* part_001:23-38: the messages of commonProto, in the order of the text.
CommonMessages ==
  << [name |-> "Empty", fields |-> <<>>],
     [name |-> "Timestamp", fields |-> <<FieldOf("seconds", "int64", FALSE),
                                         FieldOf("nanos", "int32", FALSE)>>],
     [name |-> "Duration", fields |-> <<FieldOf("seconds", "int64", FALSE),
                                        FieldOf("nanos", "int32", FALSE)>>],
     [name |-> "DoubleValue", fields |-> <<FieldOf("value", "double", FALSE)>>],
     [name |-> "FloatValue", fields |-> <<FieldOf("value", "float", FALSE)>>],
     [name |-> "Int64Value", fields |-> <<FieldOf("value", "int64", FALSE)>>],
     [name |-> "UInt64Value", fields |-> <<FieldOf("value", "uint64", FALSE)>>],
     [name |-> "Int32Value", fields |-> <<FieldOf("value", "int32", FALSE)>>],
     [name |-> "UInt32Value", fields |-> <<FieldOf("value", "uint32", FALSE)>>],
     [name |-> "BoolValue", fields |-> <<FieldOf("value", "bool", FALSE)>>],
     [name |-> "StringValue", fields |-> <<FieldOf("value", "string", FALSE)>>],
     [name |-> "BytesValue", fields |-> <<FieldOf("value", "bytes", FALSE)>>] >>

\* The enums of the schemas: the keys of their values, in the order of the text.
EnumValues == [Color |-> <<"RED", "GREEN">>]

\* The types a field of a schema is drawn from: scalars, the enum, the two
\* messages of the schema; and the name of the k-th field of a message.
FieldKinds ==
  {<<t, FALSE>> : t \in {"string", "bool", "int32", "bytes", "Color", "A", "B"}}
    \cup {<<"string", TRUE>>, <<"A", TRUE>>}
FieldName(k) == "f" \o NumStr(k)
FieldLists(n) ==
  UNION {{[k \in 1..len |-> FieldOf(FieldName(k), kinds[k][1], kinds[k][2])] :
            kinds \in [1..len -> FieldKinds]} : len \in 0..n}

\* The messages a schema text may declare after A and B: none, or one that
\* has the name of a common type.
ExtraMessages == {<<>>, <<[name |-> "Empty", fields |-> <<FieldOf("f1", "string", FALSE)>>]>>}

\* The schema texts: one that does not parse, and those with the enum Color,
\* the messages A and B and the service Greeter with the method SayHello(A).
BrokenContent == [parses |-> FALSE, messages |-> <<>>, services |-> <<>>]
Contents ==
  {BrokenContent} \cup
  {[parses |-> TRUE,
    messages |-> <<[name |-> "A", fields |-> fa], [name |-> "B", fields |-> fb]>> \o extra,
    services |-> <<[name |-> "Greeter",
                    methods |-> <<[name |-> "SayHello", requestType |-> "A"]>>]>>] :
     fa \in FieldLists(MaxFields), fb \in FieldLists(1), extra \in ExtraMessages}

\* A message type of the root: its package, its name and its fields.
TypeIn(package, message) ==
  [package |-> package, name |-> message.name, fields |-> message.fields]

\* The message types of the root after both parses, in the order collectTypes
\* meets them: those of commonProto in google.protobuf, then those of the
\* schema, at the root.
RootMessages(c) ==
  [k \in 1..Len(CommonMessages) |-> TypeIn("google.protobuf", CommonMessages[k])]
    \o [k \in 1..Len(c.messages) |-> TypeIn("", c.messages[k])]
MessageNames(c) == [k \in 1..Len(RootMessages(c)) |-> RootMessages(c)[k].name]
IsMessageType(c, name) == \E k \in 1..Len(RootMessages(c)) : RootMessages(c)[k].name = name
IsEnumType(name) == name \in DOMAIN EnumValues

\* field.resolvedType of a field of a message of the schema whose type is
\* the name of a message: the type of that name at the root, and without one
\* the type of that name in google.protobuf.
ResolvedType(c, name) ==
  LET at(package) == {k \in 1..Len(RootMessages(c)) :
                        RootMessages(c)[k].name = name /\ RootMessages(c)[k].package = package}
  IN IF at("") # {} THEN RootMessages(c)[CHOOSE k \in at("") : TRUE]
     ELSE RootMessages(c)[CHOOSE k \in at("google.protobuf") : TRUE]

\* part_001:50-85: getMessageDefaults of the type at hand, called while the
\* types of `building` are being built by its callers.  The function keeps no
\* record of these: for a type that is among them the calls repeat without
\* end, until the engine has no stack left and throws; the throw passes
\* through every caller.
RECURSIVE getMessageDefaults(_, _, _)
getMessageDefaults(c, type, building) ==
  IF type \in building THEN RangeError
  ELSE LET fields == type.fields
           DefaultOf(field) ==
             IF field.repeated THEN JsEmptyArray
             ELSE IF IsMessageType(c, field.type)
               THEN getMessageDefaults(c, ResolvedType(c, field.type), building \cup {type})
             ELSE IF IsEnumType(field.type)
               THEN (IF Len(EnumValues[field.type]) > 0
                       THEN JsKey(EnumValues[field.type][1]) ELSE JsZero)
             ELSE ScalarDefault(field.type)
           values == [k \in 1..Len(fields) |-> DefaultOf(fields[k])]
       IN IF \E k \in 1..Len(fields) : values[k] = RangeError
            THEN RangeError
            ELSE JsObject([n \in {fields[k].name : k \in 1..Len(fields)} |->
                             values[CHOOSE k \in 1..Len(fields) : fields[k].name = n]])

\* part_001:131: the value returned from the catch.
EmptyParsed == [services |-> <<>>, messageDefaults |-> <<>>]

ProtoInit ==
  /\ PostIdle
  /\ StatIdle
  /\ RunsIdle
  /\ TestsIdle
  /\ content \in Contents
  /\ protoPc = "parse"
  /\ protoTodo = <<>>
  /\ services = <<>>
  /\ messageDefaults = <<>>
  /\ parsed = None

\* part_001:19-106: the two parses, resolveAll and visit; a text that does
\* not parse throws, and the catch returns the empty result.
ParseContent ==
  /\ protoPc = "parse"
  /\ IF content.parses
       THEN /\ services' = content.services
            /\ protoTodo' = RootMessages(content)
            /\ protoPc' = "collect"
            /\ UNCHANGED parsed
       ELSE /\ parsed' = Some(EmptyParsed)
            /\ protoPc' = "done"
            /\ UNCHANGED <<services, protoTodo>>
  /\ UNCHANGED <<postVars, statVars, runsVars, testsVars, content, messageDefaults>>

\* part_001:111-120: collectTypes at the next message type; a throw of
\* getMessageDefaults leaves parseProtoContent through its catch.
CollectType ==
  /\ protoPc = "collect"
  /\ protoTodo # <<>>
  /\ LET defaults == getMessageDefaults(content, Head(protoTodo), {})
     IN IF defaults = RangeError
          THEN /\ parsed' = Some(EmptyParsed)
               /\ protoPc' = "done"
               /\ UNCHANGED <<messageDefaults, protoTodo>>
          ELSE /\ messageDefaults' = (Head(protoTodo).name :> defaults) @@ messageDefaults
               /\ protoTodo' = Tail(protoTodo)
               /\ UNCHANGED <<parsed, protoPc>>
  /\ UNCHANGED <<postVars, statVars, runsVars, testsVars, content, services>>

\* part_001:129: return { services, messageDefaults }.
ReturnParsed ==
  /\ protoPc = "collect"
  /\ protoTodo = <<>>
  /\ parsed' = Some([services |-> services, messageDefaults |-> messageDefaults])
  /\ protoPc' = "done"
  /\ UNCHANGED <<postVars, statVars, runsVars, testsVars, content, protoTodo, services,
                 messageDefaults>>

ProtoNext ==
  \/ ParseContent
  \/ CollectType
  \/ ReturnParsed

SpecProto == ProtoInit /\ [][ProtoNext]_vars

(***************************************************************************)
(* Properties of a run.                                                    *)
(***************************************************************************)
\* The handler has returned a report.
Reported == response.report # None
TheReport == response.report[1]

\* The configuration the pool runs with is one the data model allows.
PoolConfigValid == concurrency >= 1 /\ totalRequests >= 1

\* The launch loop has run to its end.
LaunchOver == client # "none" /\ pc # "launch"

\* The number of workers that are suspended at their await.
InFlight == Cardinality({k \in 1..Len(workers) : workers[k].st = "awaiting"})

\* C1: a run with concurrency >= 1 and totalRequests >= 1 that returns has
\* pushed exactly totalRequests CallResults, and its report's count is
\* totalRequests, whatever the order in which the workers' calls completed.
C1_CountEqualsTotal ==
  (Reported /\ PoolConfigValid) =>
    /\ Len(allResults) = totalRequests
    /\ TheReport.count = totalRequests

\* A run of two workers over three calls, one of them failed, has returned.
C1_Witness ==
  /\ pc = "done"
  /\ Reported
  /\ Len(workers) = 2
  /\ totalRequests = 3
  /\ TheReport.count = 3
  /\ \E k \in 1..Len(allResults) : allResults[k].error # None

\* C2: the dispenser hands out the indices 0, 1, 2, ... in order, each once
\* and none skipped, never one beyond totalRequests - 1; and when every
\* worker of a non-empty pool has returned, every index of
\* 0..totalRequests-1 has been handed out.
C2_EachIndexOnce ==
  /\ \A i \in 1..Len(claimed) : claimed[i] = i - 1
  /\ \A i \in 1..Len(claimed) : claimed[i] < totalRequests
  /\ Cardinality({claimed[i] : i \in 1..Len(claimed)}) = Len(claimed)
  /\ (LaunchOver /\ Len(workers) >= 1 /\ AllFulfilled(workers)) =>
       {claimed[i] : i \in 1..Len(claimed)} = 0..(totalRequests - 1)

\* Two workers have shared three indices and both have returned.
C2_Witness ==
  /\ LaunchOver
  /\ Len(workers) = 2
  /\ AllFulfilled(workers)
  /\ claimed = <<0, 1, 2>>

\* C3: with a valid configuration the launch loop starts exactly
\* min(concurrency, totalRequests) workers, never more calls are dispatched
\* than totalRequests, and a run with concurrency above totalRequests that
\* returns a report has dispatched exactly totalRequests calls.
C3_WorkerCount ==
  PoolConfigValid =>
    /\ Len(workers) <= Min(concurrency, totalRequests)
    /\ LaunchOver => Len(workers) = Min(concurrency, totalRequests)
    /\ callsIssued <= totalRequests
    /\ (Reported /\ concurrency > totalRequests) =>
         (callsIssued = totalRequests /\ Len(workers) = totalRequests)

\* A run with the default concurrency of 10 over two calls has returned its
\* report after two workers made two calls.
C3_Witness ==
  /\ pc = "done"
  /\ Reported
  /\ concurrency = DefaultConcurrency
  /\ totalRequests = 2
  /\ Len(workers) = 2
  /\ callsIssued = 2

\* C4: once the handler is past the barrier (it computes the statistics or
\* has the report), every worker has returned, no call is in flight, no
\* result is still to be appended, and the report counts every call that
\* was dispatched.
C4_Barrier ==
  (pc = "aggregate" \/ Reported) =>
    /\ \A k \in 1..Len(workers) : workers[k].st = "done"
    /\ InFlight = 0
    /\ Len(allResults) = callsIssued
    /\ Reported => TheReport.count = callsIssued

\* The handler is about to compute the statistics of three calls made by two
\* workers.
C4_Witness ==
  /\ pc = "aggregate"
  /\ Len(workers) = 2
  /\ Len(allResults) = 3

\* C5: no call ever rejects its worker or turns the response into an error:
\* whatever the method selector, once the client exists every worker either
\* waits for its call or has returned, and the run does not end in a 500.
C5_InvokerNeverThrows ==
  client # "none" =>
    /\ \A k \in 1..Len(workers) : workers[k].st # "rejected"
    /\ response.status # 500

\* C6: a request whose config.n is negative or whose config.c is below 1
\* starts no worker, issues no call, returns no report, and is answered with
\* an error.
C6_InvalidConfigRejected ==
  (\/ (req.n # None /\ req.n[1] < 0)
   \/ (req.c # None /\ req.c[1] < 1)) =>
    /\ workers = <<>>
    /\ callsIssued = 0
    /\ ~Reported
    /\ pc = "done" => response.status \in {400, 500}

\* The required fields of the request body.
RequiredFields == {"protoContent", "service", "method", "address"}

\* C7: a request with a required field missing is answered 400 with exactly
\* the missing fields listed, each once, and nothing was started for it: no
\* temp directory, no client, no worker, no call.
C7_MissingFieldsRejected ==
  ((\E f \in RequiredFields : req[f] = "") /\ pc # "start") =>
    /\ response.status = 400
    /\ ~Reported
    /\ {response.missing[i] : i \in 1..Len(response.missing)}
         = {f \in RequiredFields : req[f] = ""}
    /\ Len(response.missing) = Cardinality({f \in RequiredFields : req[f] = ""})
    /\ tempDir = "null" /\ ~dirExists /\ rmAttempts = 0
    /\ client = "none"
    /\ workers = <<>> /\ completed = 0 /\ callsIssued = 0 /\ allResults = <<>>

\* A request without service and address has been answered.
C7_Witness ==
  /\ pc = "done"
  /\ req.service = "" /\ req.address = "" /\ req.method # "" /\ req.protoContent # ""
  /\ response.status = 400
  /\ response.missing = <<"service", "address">>

\* C8: a request with config.n = 0 issues no call, and its report has
\* count = 0, average = fastest = slowest = rps = 0 and an empty percentile
\* table and histogram.
C8_ZeroCallsEmptyReport ==
  (req.n = Some(0) /\ ~AnyRequiredMissing(req)) =>
    /\ callsIssued = 0
    /\ Reported =>
         /\ TheReport.count = 0
         /\ TheReport.average = Zero
         /\ TheReport.fastest = 0
         /\ TheReport.slowest = 0
         /\ TheReport.rps = Zero
         /\ TheReport.latencyDistribution = <<>>
         /\ TheReport.histogram = <<>>

\* A call failed: the callback was given an error.
Failed(r) == r.error # None

\* Every result is a failure with the status and the message of the first.
AllFailAlike(rs) ==
  /\ rs # <<>>
  /\ \A k \in 1..Len(rs) :
       /\ Failed(rs[k])
       /\ rs[k].statusCode = rs[1].statusCode
       /\ rs[k].error = rs[1].error

\* No failed call of rs carries a text that names a property of
\* Object.prototype.
OwnKeysOnly(rs) ==
  \A k \in 1..Len(rs) :
    Failed(rs[k]) => (IsCount(rs[k].error[1]) /\ rs[k].error[1] # "__proto__")

\* The report of a run all of whose calls failed alike: count = totalRequests,
\* statusCodeDistribution = {status: totalRequests} and errorDist has the one
\* key of the message, with the count totalRequests.
AllFailTables ==
  /\ TheReport.count = totalRequests
  /\ TheReport.statusCodeDistribution = (allResults[1].statusCode :> totalRequests)
  /\ DOMAIN TheReport.errorDist = {allResults[1].error[1]}
  /\ IsCount(allResults[1].error[1])
  /\ TheReport.errorDist[allResults[1].error[1]] = totalRequests

\* C9: a run with a valid configuration all of whose calls failed with the
\* same status and message returns a report with count = totalRequests,
\* statusCodeDistribution = {status: totalRequests} and errorDist =
\* {message: totalRequests}; a run whose calls are dispatched ends with a
\* report, not an error; and a worker returns only when the dispenser is
\* exhausted, never because its call failed.
C9_AllFailReport ==
  /\ (Reported /\ PoolConfigValid /\ AllFailAlike(allResults)) => AllFailTables
  /\ (pc = "done" /\ callsIssued > 0) => response.status = 200
  /\ \A k \in 1..Len(workers) : workers[k].st = "done" => completed >= totalRequests

\* The same for the runs whose common message names no property of
\* Object.prototype.
AllFailReportOwnKeys ==
  /\ (Reported /\ PoolConfigValid /\ AllFailAlike(allResults) /\ OwnKeysOnly(allResults))
       => AllFailTables
  /\ (pc = "done" /\ callsIssued > 0) => response.status = 200
  /\ \A k \in 1..Len(workers) : workers[k].st = "done" => completed >= totalRequests

\* The sum of the counts of a frequency table.
RECURSIVE SumDist(_)
SumDist(d) ==
  IF DOMAIN d = {} THEN 0
  ELSE LET k == CHOOSE x \in DOMAIN d : TRUE
       IN d[k] + SumDist([x \in DOMAIN d \ {k} |-> d[x]])

\* The two tables of the report: the keys of statusCodeDistribution are the
\* statusCodes of the results, each with the number of results that carry it,
\* and the counts sum to count; the keys of errorDist are the texts of the
\* failed results, each with the number (a count, not a string) of failed
\* results that carry it, and the counts sum to the number of failed results.
DistributionsSum ==
  LET sd == TheReport.statusCodeDistribution
      ed == TheReport.errorDist
      all == 1..Len(allResults)
      failed == {k \in all : Failed(allResults[k])}
  IN /\ SumDist(sd) = TheReport.count
     /\ DOMAIN sd = {allResults[k].statusCode : k \in all}
     /\ \A s \in DOMAIN sd : sd[s] = Cardinality({k \in all : allResults[k].statusCode = s})
     /\ DOMAIN ed = {allResults[k].error[1] : k \in failed}
     /\ \A m \in DOMAIN ed :
          IsCount(m) /\ ed[m] = Cardinality({k \in failed : allResults[k].error[1] = m})
     /\ SumDist(ed) = Cardinality(failed)

\* C10: in every report the counts of statusCodeDistribution sum to count,
\* each status counting the calls that ended with it, and the counts of
\* errorDist sum to the number of failed calls, each message counting the
\* failed calls that carry it.
C10_DistributionsSum == Reported => DistributionsSum

\* The same for the reports of runs none of whose failures carries a text
\* that names a property of Object.prototype.
DistributionsSumOwnKeys == (Reported /\ OwnKeysOnly(allResults)) => DistributionsSum

(***************************************************************************)
(* Properties of the call invoker and of the aggregation.                  *)
(***************************************************************************)
\* The report of the collection has been built.
StatDone == statPc = "done"
StatRep == statReport[1]

\* The number of calls of the collection and the latency of the k-th.
StatN == Len(statCalls)
StatLat(k) == statCalls[k].latencyNs
StatLow == CHOOSE v \in {StatLat(k) : k \in 1..StatN} : \A k \in 1..StatN : v <= StatLat(k)
StatHigh == CHOOSE v \in {StatLat(k) : k \in 1..StatN} : \A k \in 1..StatN : v >= StatLat(k)

\* The sum of the counts of a histogram.
RECURSIVE SumCounts(_)
SumCounts(h) == IF h = <<>> THEN 0 ELSE Head(h).count + SumCounts(Tail(h))

\* C11: the bucket counts of the histogram of a non-empty collection sum to
\* the number of samples; the bucket index computed for a sample lies in
\* 0..bucketCount-1 and the sample is counted in that bucket and no other;
\* the histogram of an empty collection is empty.
C11_HistogramCounts ==
  StatDone =>
    LET h == StatRep.histogram
    IN /\ StatN = 0 => h = <<>>
       /\ StatN > 0 =>
            /\ h # <<>>
            /\ SumCounts(h) = StatN
            /\ StatLow < StatHigh =>
                 /\ \A k \in 1..StatN :
                      BucketIndex(StatLat(k), StatLow, StatHigh, Len(h)) \in 0..(Len(h) - 1)
                 /\ \A b \in 1..Len(h) :
                      h[b].count =
                        Cardinality({k \in 1..StatN :
                          BucketIndex(StatLat(k), StatLow, StatHigh, Len(h)) = b - 1})

\* The histogram of three calls of different latencies has ten buckets, three
\* of them with one sample.
C11_Witness ==
  /\ StatDone
  /\ StatN = 3
  /\ Len(StatRep.histogram) = 10
  /\ Cardinality({b \in 1..10 : StatRep.histogram[b].count = 1}) = 3

\* The latency at 0-based position i of the latencies in ascending order.
StatRanked(i) ==
  CHOOSE v \in {StatLat(k) : k \in 1..StatN} :
    /\ Cardinality({k \in 1..StatN : StatLat(k) < v}) <= i
    /\ i < Cardinality({k \in 1..StatN : StatLat(k) <= v})

\* Math.ceil(p * n / 100) for 0 < p < 100.
CeilHundredth(p, n) == CHOOSE c \in 0..n : 100 * c >= p * n /\ 100 * (c - 1) < p * n

\* C12: the percentile table of a non-empty collection of n latencies lists
\* the marks 10, 25, 50, 75, 90, 95, 99 in this order, each with the latency
\* at position max(0, ceil(p*n/100) - 1) of the ascending latencies; for the
\* latencies 1..100 the 50th percentile is 50; the table of an empty
\* collection is empty.
C12_Percentiles ==
  StatDone =>
    LET t == StatRep.latencyDistribution
        marks == <<10, 25, 50, 75, 90, 95, 99>>
    IN /\ StatN = 0 => t = <<>>
       /\ StatN > 0 =>
            /\ Len(t) = 7
            /\ \A j \in 1..7 :
                 /\ t[j].percentage = marks[j]
                 /\ t[j].latency =
                      StatRanked(IF CeilHundredth(marks[j], StatN) - 1 > 0
                                   THEN CeilHundredth(marks[j], StatN) - 1 ELSE 0)
       /\ (StatN = 100 /\ \A k \in 1..100 : StatLat(k) = 101 - k) => t[3].latency = 50

\* The table of the latencies 100, 99, ..., 1 has been built.
C12_Witness ==
  /\ StatDone
  /\ StatN = 100
  /\ \A k \in 1..100 : StatLat(k) = 101 - k
  /\ StatRep.latencyDistribution[3] = [percentage |-> 50, latency |-> 50]
  /\ StatRep.latencyDistribution[7] = [percentage |-> 99, latency |-> 99]

\* The sum of the latencies of the calls lo..hi.
RECURSIVE StatSumRange(_, _)
StatSumRange(lo, hi) ==
  IF lo > hi THEN 0
  ELSE IF lo = hi THEN StatLat(lo)
  ELSE LET mid == (lo + hi) \div 2
       IN StatSumRange(lo, mid) + StatSumRange(mid + 1, hi)

\* The sum of the latencies of the first k calls.
StatSum(k) == StatSumRange(1, k)

\* C13: average = sum of the latencies / count, fastest = the least and
\* slowest = the greatest latency, each 0 for an empty collection; so
\* fastest <= average <= slowest, and all three are the latency of the call
\* when there is one call.
C13_AverageMinMax ==
  StatDone =>
    LET a == StatRep.average
    IN /\ StatRep.count = StatN
       /\ StatN = 0 => (a = Zero /\ StatRep.fastest = 0 /\ StatRep.slowest = 0)
       /\ StatN > 0 =>
            /\ a[2] > 0
            /\ a[1] * StatN = StatSum(StatN) * a[2]
            /\ StatRep.fastest = StatLow
            /\ StatRep.slowest = StatHigh
            /\ StatRep.fastest * a[2] <= a[1]
            /\ a[1] <= StatRep.slowest * a[2]
       /\ StatN = 1 =>
            (a = <<StatLat(1), 1>> /\ StatRep.fastest = StatLat(1) /\ StatRep.slowest = StatLat(1))

\* Three calls of 7, 2 and 25 ns, in this order: average 34/3.
C13_Witness ==
  /\ StatDone
  /\ StatN = 3
  /\ StatLat(1) = 7 /\ StatLat(2) = 2 /\ StatLat(3) = 25
  /\ StatRep.average = <<34, 3>>
  /\ StatRep.fastest = 2
  /\ StatRep.slowest = 25

\* The values of a report that the claim about the order is about.
StatsOf(rep) ==
  <<rep.count, rep.average, rep.fastest, rep.slowest, rep.latencyDistribution,
    rep.histogram, rep.statusCodeDistribution, rep.errorDist>>

\* The collection with the results at positions i and i + 1 exchanged.
SwapAt(s, i) ==
  [k \in 1..Len(s) |-> IF k = i THEN s[i + 1] ELSE IF k = i + 1 THEN s[i] ELSE s[k]]

C17_OkIffSuccess ==
  \A k \in 1..Len(statResults) :
    (statResults[k].statusCode = "OK") <=> (statCalls[k].err = None)

\* The classification and the message the claim expects for each error the
\* collections are drawn from.
ExpectedTag(err) ==
  CASE err = ErrUnavailable -> "UNAVAILABLE"
    [] err = ErrDeadline -> "DEADLINE_EXCEEDED"
    [] err = ErrCodeZero -> "OK"
    [] err = ErrUnknownCode -> "UNKNOWN(99)"
    [] err = ErrNoCode -> "UNKNOWN(undefined)"
    [] err = ErrBare -> "UNKNOWN(undefined)"
    [] err = ErrConstructor -> "UNAVAILABLE"
    [] err = ErrProto -> "UNAVAILABLE"

ExpectedText(err) ==
  CASE err = ErrUnavailable -> "14 UNAVAILABLE: no connection"
    [] err = ErrDeadline -> "4"
    [] err = ErrCodeZero -> "0"
    [] err = ErrUnknownCode -> "boom"
    [] err = ErrNoCode -> "socket hang up"
    [] err = ErrBare -> "Unknown error"
    [] err = ErrConstructor -> "constructor"
    [] err = ErrProto -> "__proto__"

\* C18: a failed call is classified by the status name of its code when the
\* code is a known status and as UNKNOWN(<code>) otherwise; its message is the
\* error text when not empty, else the code as a string when there is a code,
\* else "Unknown error"; so the message is never empty and the failed call is
\* counted in errorDist under its message.
C18_FailureClassification ==
  \A k \in 1..Len(statResults) :
    statCalls[k].err # None =>
      /\ statResults[k].statusCode = ExpectedTag(statCalls[k].err)
      /\ statResults[k].error = Some(ExpectedText(statCalls[k].err))
      /\ statResults[k].error[1] # ""
      /\ StatDone =>
           /\ statResults[k].error[1] \in DOMAIN StatRep.errorDist
           /\ IsCount(statResults[k].error[1])
           /\ StatRep.errorDist[statResults[k].error[1]] =
                Cardinality({j \in 1..StatN :
                  statCalls[j].err # None /\ ExpectedText(statCalls[j].err) = statResults[k].error[1]})

\* The classification and the message alone: the recorded statusCode and
\* error of every failed call are those of the table, and the message is
\* never empty.
FailureClassificationTable ==
  \A k \in 1..Len(statResults) :
    statCalls[k].err # None =>
      /\ statResults[k].statusCode = ExpectedTag(statCalls[k].err)
      /\ statResults[k].error = Some(ExpectedText(statCalls[k].err))
      /\ statResults[k].error[1] # ""

\* min(floor((L - min) / width), 9) for width = (max - min) / 10: the greatest
\* j in 0..9 with j * width <= L - min.
StatBucketOf(L) ==
  CHOOSE j \in 0..9 :
    /\ j * (StatHigh - StatLow) <= 10 * (L - StatLow)
    /\ \A i \in (j + 1)..9 : i * (StatHigh - StatLow) > 10 * (L - StatLow)

\* C19: when all latencies are equal the histogram is one bucket with all the
\* samples and frequency 1; otherwise it has 10 buckets, the upper bound of
\* bucket i (0-based) is min + (i + 1) * (max - min) / 10, the bounds
\* increase strictly and the last is max; a sample of latency L is counted in
\* bucket min(floor((L - min) / width), 9), so the least latency is in the
\* first and the greatest in the last bucket, and no sample is above the upper
\* bound of its bucket.
C19_HistogramShape ==
  (StatDone /\ StatN > 0) =>
    LET h == StatRep.histogram
        range == StatHigh - StatLow
    IN IF range = 0
         THEN h = << [mark |-> <<StatLow, 1>>, count |-> StatN, frequency |-> <<1, 1>>] >>
         ELSE /\ Len(h) = DefaultBucketCount
              /\ \A b \in 1..10 :
                   /\ h[b].mark[2] > 0
                   /\ h[b].mark[1] * 10 = (StatLow * 10 + range * b) * h[b].mark[2]
                   /\ h[b].count = Cardinality({k \in 1..StatN : StatBucketOf(StatLat(k)) = b - 1})
                   /\ h[b].frequency[1] * StatN = h[b].count * h[b].frequency[2]
              /\ \A b \in 1..9 :
                   h[b].mark[1] * h[b + 1].mark[2] < h[b + 1].mark[1] * h[b].mark[2]
              /\ h[10].mark = <<StatHigh, 1>>
              /\ StatBucketOf(StatLow) = 0 /\ h[1].count >= 1
              /\ StatBucketOf(StatHigh) = 9 /\ h[10].count >= 1
              /\ \A k \in 1..StatN :
                   LET b == StatBucketOf(StatLat(k)) + 1
                   IN StatLat(k) * h[b].mark[2] <= h[b].mark[1]

\* Ten buckets over the latencies 2, 7 and 25: width 2.3, 7 in the third
\* bucket (upper bound 8.9).
C19_Witness ==
  /\ StatDone
  /\ {StatLat(k) : k \in 1..StatN} = {2, 7, 25}
  /\ StatN = 3
  /\ Len(StatRep.histogram) = 10
  /\ StatRep.histogram[3] = [mark |-> <<89, 10>>, count |-> 1, frequency |-> <<1, 3>>]
  /\ StatRep.histogram[1].count = 1
  /\ StatRep.histogram[10].count = 1

\* C15: invocations that run interleaved share no state: each has its own
\* dispenser counter and result collection, so the report of an invocation
\* counts exactly its own totalRequests calls and holds only results of calls
\* that this invocation issued.
C15_RunsIsolated ==
  \A r \in DOMAIN runPc :
    /\ runPc[r] = "pool" =>
         /\ counters[SlotOf(r)] <= runCfg[r].totalRequests
         /\ \A k \in 1..Len(collections[SlotOf(r)]) : collections[SlotOf(r)][k].by = r
    /\ runPc[r] = "done" =>
         LET rep == runReport[r][1]
         IN /\ rep.report.count = runCfg[r].totalRequests
            /\ Len(rep.from) = rep.report.count
            /\ \A k \in 1..Len(rep.from) : rep.from[k] = r
            /\ DOMAIN rep.report.statusCodeDistribution =
                 {IF RunTarget(r) = "ok" THEN "OK" ELSE "UNAVAILABLE"}

\* The first invocation has returned its report of two calls while the second
\* is in its pool with one result appended and a call in flight.
C15_Witness ==
  /\ runPc # <<>>
  /\ runPc[1] = "done"
  /\ runReport[1][1].report.count = 2
  /\ runPc[2] = "pool"
  /\ Len(collections[SlotOf(2)]) = 1
  /\ \E w \in 1..Len(runWorkers[2]) : runWorkers[2][w].st = "awaiting"

\* C16: runTests issues the steps of the list it was started with one after
\* the other in list order, whatever is done to the page's steps meanwhile:
\* the requests sent are those of steps 0, 1, 2, ... without a gap, at most
\* one request is in flight, the request of a step is sent only when every
\* step before it has been answered or has failed, the entries of `results`
\* are in step order, and when runTests has ended every step's request has
\* been sent.
C16_StepsSequential ==
  /\ Cardinality(inFlight) <= 1
  /\ \A k \in 1..Len(sent) : sent[k] = k - 1
  /\ \A k \in 1..(Len(sent) - 1) : sent[k] \in settled
  /\ inFlight \subseteq {sent[k] : k \in {Len(sent)} \ {0}} \ settled
  /\ \A k \in 1..Len(results) :
       /\ results[k].step \in settled
       /\ k > 1 => results[k - 1].step < results[k].step
  /\ (testsPc = "idle" /\ sent # <<>>) => (Len(sent) = Len(runSteps) /\ inFlight = {})

\* Two steps, the first of which failed at its request: runTests has ended
\* with the entry of step 1 alone, a response that is not ok; a step was
\* removed from the page during the run.
C16_Witness ==
  /\ testsPc = "idle"
  /\ Len(runSteps) = 2
  /\ Len(steps) = 1
  /\ sent = <<0, 1>>
  /\ settled = {0, 1}
  /\ outcomes = <<"threw", "notok">>
  /\ Len(results) = 1
  /\ results[1].step = 1
  /\ results[1].count = 0
  /\ ~isRunning

\* C20: a handler that has started its pool with a valid configuration and
\* has returned, has returned the report (status 200).
C20_PoolRunReturnsReport ==
  (pc = "done" /\ client # "none" /\ PoolConfigValid) =>
    (Reported /\ response.status = 200)

\* The requests that give a concurrency and a totalRequests of at least 1.
ExplicitInit == Init /\ TruthyNum(req.c) /\ TruthyNum(req.n) /\ req.c[1] >= 1 /\ req.n[1] >= 1

\* The handler's steps and the callbacks of issued calls are eventually taken.
FairSpec == ExplicitInit /\ [][Next]_vars /\ WF_vars(Next)

\* With a method of the service, a pool started with a valid configuration
\* leads to the report, and no worker is left suspended.
FairTermination ==
  (client # "none" /\ PoolConfigValid /\ IsServiceMethod(methodName))
    ~> (Reported /\ pc = "done" /\ AllFulfilled(workers))

\* The calls claimed and not yet appended: those of the workers suspended at
\* their await, whether the callback has run or not.
Unappended ==
  Cardinality({k \in 1..Len(workers) : workers[k].st \in {"awaiting", "resolved"}})

\* C21: in every state of a run allResults.length <= completed <=
\* totalRequests, and the calls in flight are completed - allResults.length
\* in number and at most min(concurrency, totalRequests).
C21_CounterBounds ==
  client # "none" =>
    /\ Len(allResults) <= completed
    /\ completed <= totalRequests
    /\ Unappended = completed - Len(allResults)
    /\ Unappended <= Min(concurrency, totalRequests)

\* The same for the runs with a valid configuration and a method the client
\* has.
CounterBoundsWhenDispatched ==
  (client # "none" /\ PoolConfigValid /\ IsServiceMethod(methodName)) =>
    /\ Len(allResults) <= completed
    /\ completed <= totalRequests
    /\ Unappended = completed - Len(allResults)
    /\ Unappended <= Min(concurrency, totalRequests)

\* The counter `completed` never decreases.
CompletedNeverDecreases == [][completed' >= completed]_vars

\* C22: the client of a run is closed at most once, and only when the barrier
\* has been passed: every worker has returned and no claimed call is left
\* unanswered or unappended; the statistics are computed, and the report
\* returned, with the client closed exactly once.
C22_ClientClosedAfterBarrier ==
  /\ closeCount <= 1
  /\ (client = "closed") <=> (closeCount = 1)
  /\ closeCount = 1 =>
       /\ pc \in {"aggregate", "finally", "removing", "done"}
       /\ \A k \in 1..Len(workers) : workers[k].st = "done"
       /\ Unappended = 0
       /\ Len(allResults) = callsIssued
  /\ pc = "aggregate" => closeCount = 1
  /\ Reported => closeCount = 1

\* The same for the runs whose method is not the client's own close.
ClientClosedAfterBarrierByHandler ==
  methodName # "close" =>
    /\ closeCount <= 1
    /\ (client = "closed") <=> (closeCount = 1)
    /\ closeCount = 1 =>
         /\ pc \in {"aggregate", "finally", "removing", "done"}
         /\ \A k \in 1..Len(workers) : workers[k].st = "done"
         /\ Unappended = 0
         /\ Len(allResults) = callsIssued
    /\ pc = "aggregate" => closeCount = 1
    /\ Reported => closeCount = 1

\* C23: when POST delivers its response (200, 400 or 500), the removal of
\* the temp directory has been attempted once if the directory was created
\* and not at all otherwise; the removal is called in the finally block only,
\* in a step that does not yet deliver the response; and neither that step
\* nor the settling of the removal, fulfilled or rejected, changes the
\* response.
C23_TempDirCleanup ==
  /\ [](/\ rmAttempts <= 1
        /\ pc = "done" => /\ rmAttempts = (IF tempDir = "set" THEN 1 ELSE 0)
                          /\ response.status \in {200, 400, 500}
        /\ tempDir = "null" => (~dirExists /\ rmAttempts = 0))
  /\ [][/\ rmAttempts' # rmAttempts =>
             (pc = "finally" /\ tempDir = "set" /\ pc' # "done" /\ rmAttempts' = rmAttempts + 1)
        /\ pc' = "done" => (pc \in {"finally", "removing"} /\ response' = response)
        /\ pc \in {"finally", "removing"} => response' = response]_vars

\* The service was not found (400) after the directory was created; its
\* removal was attempted once and failed, and the 400 was delivered.
C23_Witness ==
  /\ pc = "done"
  /\ response.status = 400
  /\ tempDir = "set"
  /\ rmAttempts = 1
  /\ dirExists

\* C24: whatever the outcomes of the steps, runTests goes through every step
\* of the list it was started with; `results` holds, in step order, the
\* report of each step answered ok (count and errorDist as the response to
\* the request of that step carries them) and a
\* placeholder (count 0, errorDist with one key of count 1) for each step
\* answered not ok, and nothing for a step whose request threw; isRunning is
\* true and currentStepIndex the step while runTests is suspended, and when
\* every request settles runTests ends with isRunning false and
\* currentStepIndex null.
C24_FailingStepDoesNotAbort ==
  /\ [](/\ Len(results) = Cardinality({k \in 1..Len(outcomes) : outcomes[k] # "threw"})
        /\ \A j \in 1..Len(results) :
             LET i == results[j].step
             IN /\ i + 1 \in 1..Len(outcomes)
                /\ j > 1 => results[j - 1].step < i
                /\ outcomes[i + 1] \in {"ok", "notok"}
                /\ outcomes[i + 1] = "ok" =>
                     [count |-> results[j].count, errorDist |-> results[j].errorDist]
                       \in OkBodies(runSteps[i + 1])
                /\ outcomes[i + 1] = "notok" =>
                     /\ results[j].count = 0
                     /\ Cardinality(DOMAIN results[j].errorDist) = 1
                     /\ \A key \in DOMAIN results[j].errorDist :
                          key # "" /\ results[j].errorDist[key] = 1
        /\ isRunning <=> testsPc \in {"fetching", "parsing"}
        /\ isRunning => (currentStepIndex = Some(loopI) /\ Len(outcomes) = loopI)
        /\ ~isRunning => currentStepIndex = None
        /\ (testsPc = "idle" /\ sent # <<>>) =>
             (Len(outcomes) = Len(runSteps) /\ Len(sent) = Len(runSteps)))
  /\ (isRunning ~> (~isRunning /\ currentStepIndex = None /\ Len(outcomes) = Len(runSteps)))

\* Two steps, the first answered not ok without an error text and the second
\* ok with a report that counts two failed calls: runTests has ended with a
\* placeholder under "API Error" and then the report.
C24_Witness ==
  /\ testsPc = "idle"
  /\ ~isRunning
  /\ currentStepIndex = None
  /\ outcomes = <<"notok", "ok">>
  /\ Len(results) = 2
  /\ results[1].count = 0
  /\ DOMAIN results[1].errorDist = {"API Error"}
  /\ runSteps[2].n = Some(0)
  /\ results[2].count = DefaultTotalRequests
  /\ results[2].errorDist = ("14 UNAVAILABLE: no connection" :> 1) @@ ("Unknown error" :> 1)

\* The value parseProtoContent has returned.
TheParsed == parsed[1]

\* C25: for a schema that parses, parseProtoContent returns the services of
\* the schema and a default payload for each of its message types.
C25_DefaultsForEveryType ==
  (protoPc = "done" /\ content.parses) =>
    /\ parsed # None
    /\ TheParsed.services = content.services
    /\ \A k \in 1..Len(MessageNames(content)) :
         MessageNames(content)[k] \in DOMAIN TheParsed.messageDefaults

\* The message types a message refers to through fields that are not
\* repeated, and the schemas in which such references form a cycle.
Cyclic(c) ==
  LET fieldsOf(name) == {ResolvedType(c, name).fields[k] :
                           k \in 1..Len(ResolvedType(c, name).fields)}
      refs(name) == {f.type : f \in {g \in fieldsOf(name) :
                                       ~g.repeated /\ IsMessageType(c, g.type)}}
  IN \/ "A" \in refs("A")
     \/ "B" \in refs("B")
     \/ ("B" \in refs("A") /\ "A" \in refs("B"))

\* The types of the root that collectTypes visits last among those of their
\* name: the entry of the name is theirs (part_001:113).
LastOfName(c) ==
  {k \in 1..Len(RootMessages(c)) :
     \A j \in (k + 1)..Len(RootMessages(c)) : RootMessages(c)[j].name # RootMessages(c)[k].name}

\* parseProtoContent always returns; and for a schema without such a cycle
\* messageDefaults has one entry per name of a message type, that of the type
\* of the name visited last, and the payload of such a type has an empty array for a repeated field,
\* the payload of the field's type for a message field, the first key for an
\* enum field, and "", false, 0 or null for a scalar field.
ParsedWhenAcyclic ==
  protoPc = "done" =>
    /\ parsed # None
    /\ ~content.parses => TheParsed = EmptyParsed
    /\ (content.parses /\ Cyclic(content)) => TheParsed = EmptyParsed
    /\ (content.parses /\ ~Cyclic(content)) =>
         /\ TheParsed.services = content.services
         /\ DOMAIN TheParsed.messageDefaults =
              {MessageNames(content)[k] : k \in 1..Len(MessageNames(content))}
         /\ \A k \in LastOfName(content) :
              LET m == RootMessages(content)[k]
              IN /\ m.name \in DOMAIN TheParsed.messageDefaults
                 /\ DOMAIN TheParsed.messageDefaults[m.name].obj =
                      {m.fields[j].name : j \in 1..Len(m.fields)}
                 /\ \A j \in 1..Len(m.fields) :
                      LET f == m.fields[j]
                          v == TheParsed.messageDefaults[m.name].obj[f.name]
                      IN v = (IF f.repeated THEN [json |-> "[]"]
                              ELSE IF f.type \in {"A", "B"}
                                THEN TheParsed.messageDefaults[f.type]
                              ELSE IF f.type = "Color" THEN [json |-> "RED"]
                              ELSE IF f.type = "string" THEN [json |-> "''"]
                              ELSE IF f.type = "bool" THEN [json |-> "false"]
                              ELSE IF f.type = "bytes" THEN [json |-> "null"]
                              ELSE [json |-> "0"])

====
